---- MODULE Spec2Model ----
(***************************************************************************)
(* Fault-to-ticket automation engine of the solar farm monitor:            *)
(* server/src/routes/automation.ts (workflow, dedup window, technician     *)
(* selector), the tickets router (ticket lifecycle), server/src/routes/    *)
(* alerts.ts (alert row aggregator) and the scan ingest of solarScans.ts.  *)
(* Every request handler is one action; the tables of the store are the    *)
(* variables.  Rows carry only the columns the handlers read or write.     *)
(***************************************************************************)
EXTENDS Integers, Sequences, FiniteSets, TLC

VARIABLES
  now,          \* the server clock (Date.now()), in minutes
  panelStatus,  \* SolarPanel.status of every panel
  technicians,  \* Technician table: id -> row
  faults,       \* FaultDetection table, in creation order
  tickets,      \* Ticket table, in createdAt order
  alerts,       \* Alert table, in createdAt order
  events,       \* AutomationEvent table, in createdAt order
  scans,        \* SolarScan table: rows waiting for their deferred automation
  seq,          \* primary key generators (cuid) of the tables
  last,         \* the request handled last: its arguments, its workflow calls, its response
  running       \* the requests in flight: where each one stands between its awaits

vars == <<now, panelStatus, technicians, faults, tickets, alerts, events, scans, seq, last,
          running>>

-----------------------------------------------------------------------------
(* Bounds of the model *)

MaxTick == 2        \* instants after 0 that the clock takes
MaxCalls == 2       \* workflow invocations (incident ids) in one behaviour
MaxTickets == 3     \* ticket rows created in one behaviour
MaxAlerts == 2      \* alert rows created in one behaviour
MaxScans == 1       \* scans ingested in one behaviour

TimeStep == 5       \* minutes between two instants after the first window

-----------------------------------------------------------------------------
(* Program constants *)

DEDUPE_WINDOW_MINUTES == 15
BUSY_THRESHOLD == 4

\* The instants of the clock: 0, the instant exactly one dedup window later,
\* and instants past the window.
Times == {0} \cup {DEDUPE_WINDOW_MINUTES + TimeStep * k : k \in 0..(MaxTick - 1)}

\* The detectedAt of a report: at 0, exactly one window later, past the window.
ReportTimes == {0, DEDUPE_WINDOW_MINUTES, DEDUPE_WINDOW_MINUTES + TimeStep}

NoId == 0           \* a null foreign key
NoTech == "none"    \* a null assignedTechnicianId / technicianId

-----------------------------------------------------------------------------
(* The farm: panels with their zone and row.  p1 and p2 share a physical   *)
(* row, p3 has the same row number in another zone, p4 is another row.     *)

Panels ==
  [ p1 |-> [zone |-> "A", row |-> 1, lastChecked |-> 1],
    p2 |-> [zone |-> "A", row |-> 1, lastChecked |-> 2],
    p3 |-> [zone |-> "B", row |-> 1, lastChecked |-> 3],
    p4 |-> [zone |-> "A", row |-> 2, lastChecked |-> 4] ]

PanelIds == DOMAIN Panels
PanelOrder == <<"p1", "p2", "p3", "p4">>

PanelStatuses == {"healthy", "warning", "fault"}

TechIds == {"t1", "t2"}
TechStatuses == {"available", "busy", "offline"}

\* Technician rows as seeded: skills is the parsed JSON array of the row.
InitTechnicians ==
  [ t1 |-> [status |-> "available", activeTickets |-> 0, resolvedTickets |-> 0,
            skills |-> {"electrical", "voltage"}, avgResolutionTime |-> 2],
    t2 |-> [status |-> "available", activeTickets |-> 0, resolvedTickets |-> 0,
            skills |-> {"thermal imaging"}, avgResolutionTime |-> 1] ]

-----------------------------------------------------------------------------
(* Small helpers *)

Max(a, b) == IF a >= b THEN a ELSE b

RECURSIVE SumActive(_, _)
SumActive(techs, ids) ==
  IF ids = {} THEN 0
  ELSE LET t == CHOOSE x \in ids : TRUE
       IN techs[t].activeTickets + SumActive(techs, ids \ {t})

Range(s) == {s[i] : i \in 1..Len(s)}

\* String.prototype.includes
Includes(a, b) ==
  \E i \in 1..(Len(a) - Len(b) + 1) : SubSeq(a, i, i + Len(b) - 1) = b

-----------------------------------------------------------------------------
(* The store as one value, so that a handler can thread it through the     *)
(* calls it makes.                                                         *)

DB == [technicians |-> technicians, faults |-> faults, tickets |-> tickets,
       alerts |-> alerts, events |-> events, seq |-> seq]

InitSeq == [fault |-> 1, ticket |-> 1, alert |-> 1, incident |-> 1, scan |-> 1]

\* The requests that may be in flight at once, and a slot without a request
Procs == {1, 2}
Idle == [pc |-> "idle"]

-----------------------------------------------------------------------------
(* Pure helpers of automation.ts *)

Severities == {"critical", "high", "medium", "low"}

\* normalizeSeverity: the input is already trimmed and lower-cased here.
normalizeSeverity(severity) ==
  IF severity \in {"critical", "high", "medium", "low"} THEN severity ELSE "medium"

priorityFromSeverity(severity) ==
  IF severity = "critical" THEN "critical"
  ELSE IF severity = "high" THEN "high"
  ELSE IF severity = "low" THEN "low"
  ELSE "medium"

\* A ticket number is its prefix and the integer after it: "FK-007" is
\* [pfx |-> "FK", n |-> 7].  padStart(3, '0') never truncates and parseInt
\* drops the padding, so the digits are carried as the integer they denote.
TicketNo(pfx, n) == [pfx |-> pfx, n |-> n]

\* The prefixes matched by the patterns FAULT ID-FK-(\d+), FK-(\d+),
\* TCK-(\d+) and TK-(\d+); "TKT" (the older TKT-<year>-<n> numbers) matches none.
KnownPrefixes == {"FAULT ID-FK", "FK", "TCK", "TK"}

\* generateTicketNumber: one more than the number of the ticket created last.
generateTicketNumber(tks) ==
  IF Len(tks) = 0 THEN TicketNo("FK", 1)
  ELSE LET latestTicket == tks[Len(tks)]
       IN IF latestTicket.ticketNumber.pfx \in KnownPrefixes
          THEN TicketNo("FK", latestTicket.ticketNumber.n + 1)
          ELSE TicketNo("FK", 1)

-----------------------------------------------------------------------------
(* Transactions: prisma.$transaction runs the callback on a copy (cur) of  *)
(* the store (base); returning commits cur, throwing leaves base.          *)

Begin(db) == [base |-> db, cur |-> db]
Commit(tx) == tx.cur
Abort(tx) == tx.base

Event(eventType, stage, incidentId, faultId, ticketId, technicianId) ==
  [eventType |-> eventType, stage |-> stage, incidentId |-> incidentId,
   faultId |-> faultId, ticketId |-> ticketId, technicianId |-> technicianId,
   payload |-> [pfx |-> "", n |-> 0]]

\* Faulty variant: the event is written through the global client, outside the transaction.
createAutomationEventGlobal(tx, e) ==
  [tx EXCEPT !.cur.events = Append(@, e), !.base.events = Append(@, e)]

\* Faulty variant: the event is written twice.
createAutomationEventTwice(tx, e) ==
  [tx EXCEPT !.cur.events = Append(Append(@, e), e)]

\* createAutomationEvent(tx, ...): the write goes through the transaction client.
createAutomationEvent(tx, e) ==
  [tx EXCEPT !.cur.events = Append(@, e)]

-----------------------------------------------------------------------------
(* Deduplication window *)

NoFault == [id |-> NoId, panelId |-> "none", faultType |-> "", detectedAt |-> 0]
NoTicket == [id |-> NoId, ticketNumber |-> TicketNo("", 0), faultId |-> NoId,
             panelId |-> "none", status |-> "", priority |-> "",
             assignedTechnicianId |-> NoTech]

\* where: the panels with the row number of the reporting panel
panelIdsInRow(panelId) == {p \in PanelIds : Panels[p].row = Panels[panelId].row}

\* the where clause of the findFirst of findDuplicateFault
DuplicateMatches(db, panelId, faultType, detectedAt) ==
  LET dedupeFrom == detectedAt - DEDUPE_WINDOW_MINUTES
  IN {f \in Range(db.faults) :
        /\ f.panelId \in panelIdsInRow(panelId)
        /\ f.faultType = faultType
        /\ f.detectedAt >= dedupeFrom}

\* findDuplicateFault: the rows findFirst may return with orderBy detectedAt
\* desc (rows with equal detectedAt come in either order); {NoFault} for null.
findDuplicateFault(db, panelId, faultType, detectedAt) ==
  LET m == DuplicateMatches(db, panelId, faultType, detectedAt)
  IN IF panelId \notin PanelIds \/ m = {} THEN {NoFault}
     ELSE {f \in m : \A g \in m : g.detectedAt <= f.detectedAt}

\* include tickets, orderBy createdAt desc, take 1: tickets[0] of a fault row
LatestTicketOf(db, faultId) ==
  LET own == SelectSeq(db.tickets, LAMBDA t : t.faultId = faultId)
  IN IF faultId = NoId \/ Len(own) = 0 THEN NoTicket ELSE own[Len(own)]

-----------------------------------------------------------------------------
(* Technician selector *)

\* Faulty variant: busy technicians are left out of the pool.
CandidatesAvailableOnly(techs) == {t \in TechIds : techs[t].status = "available"}

\* the candidate pool: status in (available, busy)
Candidates(techs) == {t \in TechIds : techs[t].status \in {"available", "busy"}}

hasSkill(tech, normalizedFaultType) ==
  \E skill \in tech.skills :
     \/ Includes(skill, normalizedFaultType)
     \/ Includes(normalizedFaultType, skill)
     \/ Includes(skill, "diagnostic")
     \/ Includes(skill, "maintenance")

\* Faulty variant: the workload of the technician does not count.
ScoreWithoutWorkload(tech, faultType) ==
    (IF tech.status = "available" THEN 40 ELSE 15)
  + (IF hasSkill(tech, faultType) THEN 30 ELSE 0)
  + Max(0, 20 - tech.avgResolutionTime * 3)

Score(tech, faultType) ==
    (IF tech.status = "available" THEN 40 ELSE 15)
  + (IF hasSkill(tech, faultType) THEN 30 ELSE 0)
  + (IF tech.activeTickets <= 1 THEN 25
     ELSE IF tech.activeTickets <= 3 THEN 10 ELSE 0 - 15)
  + Max(0, 20 - tech.avgResolutionTime * 3)

\* orderBy activeTickets asc, avgResolutionTime asc: a comes before b.  Rows
\* equal on both keys come in either order.
PoolBefore(techs, a, b) ==
  \/ techs[a].activeTickets < techs[b].activeTickets
  \/ /\ techs[a].activeTickets = techs[b].activeTickets
     /\ techs[a].avgResolutionTime <= techs[b].avgResolutionTime

\* Faulty variant: the pool is not filtered by status.
selectTechnicianAny(techs, faultType) ==
  LET best == {t \in TechIds : \A u \in TechIds : Score(techs[u], faultType) <= Score(techs[t], faultType)}
  IN {t \in best : \A u \in best : PoolBefore(techs, t, u)}

\* selectTechnician: the ids it may return; {NoTech} for null.  The sort by
\* score is stable, so among the best scores the first of the pool wins.
selectTechnician(techs, faultType) ==
  LET pool == Candidates(techs)
      best == {t \in pool : \A u \in pool : Score(techs[u], faultType) <= Score(techs[t], faultType)}
  IN IF pool = {} THEN {NoTech}
     ELSE {t \in best : \A u \in best : PoolBefore(techs, t, u)}

-----------------------------------------------------------------------------
(* Fault-ticket workflow *)

NoResult == [deduplicated |-> FALSE, faultId |-> NoId, ticketId |-> NoId,
             ticketNumber |-> TicketNo("", 0), assignedTechnicianId |-> NoTech]

\* the argument of createFaultTicketAndAssignment; zone = "" stands for a
\* caller that passes no zone, row and status
WorkflowInput(incidentId, panelId, faultType, severity, detectedAt, zone, row, status) ==
  [incidentId |-> incidentId, panelId |-> panelId, faultType |-> faultType,
   severity |-> severity, detectedAt |-> detectedAt,
   zone |-> zone, row |-> row, status |-> status]

\* what one invocation leaves: the store, whether it threw, what it returned
Outcome(db, err, result) == [db |-> db, err |-> err, result |-> result]

\* a storage error after any prefix of the writes: the transaction is rolled back
Failures(txs) == {Outcome(Abort(tx), TRUE, NoResult) : tx \in txs}

\* tx.faultDetection.create
createFault(tx, input) ==
  LET fault == [id |-> tx.cur.seq.fault, panelId |-> input.panelId,
                faultType |-> input.faultType, detectedAt |-> input.detectedAt]
  IN [tx EXCEPT !.cur.faults = Append(@, fault), !.cur.seq.fault = @ + 1]

\* tx.ticket.create with the number generateTicketNumber reads through the
\* global client, i.e. from the committed tickets
createTicket(tx, input, faultId) ==
  LET ticket == [id |-> tx.cur.seq.ticket,
                 ticketNumber |-> generateTicketNumber(tx.base.tickets),
                 faultId |-> faultId, panelId |-> input.panelId,
                 status |-> "open",
                 priority |-> priorityFromSeverity(input.severity),
                 assignedTechnicianId |-> NoTech]
  IN [tx EXCEPT !.cur.tickets = Append(@, ticket), !.cur.seq.ticket = @ + 1]

\* Ticket.ticketNumber is @unique: the insert throws when the number is taken
TicketNumberTaken(tks, ticketNumber) ==
  \E i \in 1..Len(tks) : tks[i].ticketNumber = ticketNumber

\* tx.alert.updateMany where zone, row, status, dismissed = false
stampAlerts(tx, input, ticketId) ==
  IF input.zone # "" /\ input.status # ""
  THEN [tx EXCEPT !.cur.alerts =
          [i \in 1..Len(@) |->
             IF /\ @[i].zone = input.zone /\ @[i].row = input.row
                /\ @[i].status = input.status /\ ~@[i].dismissed
             THEN [@[i] EXCEPT !.ticketId = ticketId] ELSE @[i]]]
  ELSE tx

\* tx.ticket.update: assignedTechnicianId
assignTicket(tx, ticketId, techId) ==
  [tx EXCEPT !.cur.tickets =
     [i \in 1..Len(@) |->
        IF @[i].id = ticketId THEN [@[i] EXCEPT !.assignedTechnicianId = techId]
        ELSE @[i]]]

\* Faulty variant: activeTickets is set from the row read by selectTechnician
\* instead of being incremented in the store.
bumpTechnicianFromRead(tx, techId, technician) ==
  LET nextActiveTickets == technician.activeTickets + 1
  IN [tx EXCEPT !.cur.technicians[techId] =
        [@ EXCEPT !.activeTickets = nextActiveTickets,
                  !.status = IF nextActiveTickets >= BUSY_THRESHOLD
                             THEN "busy" ELSE technician.status]]

\* Faulty variant: only the status is written, activeTickets is not incremented.
bumpTechnicianStatusOnly(tx, techId, technician) ==
  LET nextActiveTickets == technician.activeTickets + 1
  IN [tx EXCEPT !.cur.technicians[techId] =
        [@ EXCEPT !.status = IF nextActiveTickets >= BUSY_THRESHOLD
                             THEN "busy" ELSE technician.status]]

\* tx.technician.update: activeTickets increment 1, status from the row read
\* by selectTechnician
bumpTechnician(tx, techId, technician) ==
  LET nextActiveTickets == technician.activeTickets + 1
  IN [tx EXCEPT !.cur.technicians[techId] =
        [@ EXCEPT !.activeTickets = @ + 1,
                  !.status = IF nextActiveTickets >= BUSY_THRESHOLD
                             THEN "busy" ELSE technician.status]]

\* Faulty variant: the duplicate branch counts the ticket once more for its technician.
DeduplicatedOutcomesBumping(tx0, tx1, input, duplicate, dupTicket) ==
  LET tx2 == createAutomationEvent(tx1,
               Event("DuplicateFaultIgnored", "deduplicated", input.incidentId, duplicate.id, dupTicket.id, NoTech))
      techId == dupTicket.assignedTechnicianId
      tx3 == IF techId = NoTech THEN tx2
             ELSE bumpTechnician(tx2, techId, tx2.cur.technicians[techId])
      result == [deduplicated |-> TRUE, faultId |-> duplicate.id,
                 ticketId |-> dupTicket.id, ticketNumber |-> dupTicket.ticketNumber,
                 assignedTechnicianId |-> dupTicket.assignedTechnicianId]
  IN {Outcome(Commit(tx3), FALSE, result)} \cup Failures({tx0, tx1, tx2})

\* Faulty variant: the duplicate is returned without the deduplicated event.
DeduplicatedOutcomesSilent(tx0, tx1, input, duplicate, dupTicket) ==
  {Outcome(Commit(tx1), FALSE,
           [deduplicated |-> TRUE, faultId |-> duplicate.id,
            ticketId |-> dupTicket.id, ticketNumber |-> dupTicket.ticketNumber,
            assignedTechnicianId |-> dupTicket.assignedTechnicianId])}
  \cup Failures({tx0, tx1})

\* the branch of the workflow that found a duplicate with a ticket
DeduplicatedOutcomes(tx0, tx1, input, duplicate, dupTicket) ==
  LET tx2 == createAutomationEvent(tx1,
               Event("DuplicateFaultIgnored", "deduplicated", input.incidentId, duplicate.id, dupTicket.id, NoTech))
      result == [deduplicated |-> TRUE, faultId |-> duplicate.id,
                 ticketId |-> dupTicket.id, ticketNumber |-> dupTicket.ticketNumber,
                 assignedTechnicianId |-> dupTicket.assignedTechnicianId]
  IN {Outcome(Commit(tx2), FALSE, result)} \cup Failures({tx0, tx1, tx2})

\* the branch that creates the fault and the ticket and assigns a technician
CreatedOutcomes(tx0, tx1, input) ==
  LET faultId == tx1.cur.seq.fault
      ticketId == tx1.cur.seq.ticket
      tx2 == createFault(tx1, input)
      tx3 == createAutomationEvent(tx2,
               Event("FaultCreated", "fault_created", input.incidentId, faultId, NoId, NoTech))
      tx4 == createTicket(tx3, input, faultId)
      ticketNumber == generateTicketNumber(tx3.base.tickets)
      tx5 == stampAlerts(tx4, input, ticketId)
      tx6 == createAutomationEvent(tx5,
               [Event("TicketCreated", "ticket_created", input.incidentId, faultId, ticketId, NoTech)
                  EXCEPT !.payload = ticketNumber])
      Unassigned ==
        LET tx7 == createAutomationEvent(tx6,
                     Event("TechnicianUnavailable", "manual_assignment_required", input.incidentId, faultId, ticketId, NoTech))
        IN {Outcome(Commit(tx7), FALSE,
                    [deduplicated |-> FALSE, faultId |-> faultId, ticketId |-> ticketId,
                     ticketNumber |-> ticketNumber, assignedTechnicianId |-> NoTech])}
           \cup Failures({tx6, tx7})
      Assigned(techId) ==
        LET technician == tx6.cur.technicians[techId]
            tx7 == assignTicket(tx6, ticketId, techId)
            tx8 == bumpTechnician(tx7, techId, technician)
            tx9 == createAutomationEvent(tx8,
                     Event("TechnicianAssigned", "technician_assigned", input.incidentId, faultId, ticketId, techId))
        IN {Outcome(Commit(tx9), FALSE,
                    [deduplicated |-> FALSE, faultId |-> faultId, ticketId |-> ticketId,
                     ticketNumber |-> ticketNumber, assignedTechnicianId |-> techId])}
           \cup Failures({tx6, tx7, tx8, tx9})
  IN IF TicketNumberTaken(tx3.cur.tickets, ticketNumber)
     THEN Failures({tx0, tx1, tx2, tx3})
     ELSE Failures({tx0, tx1, tx2, tx3, tx4, tx5})
          \cup UNION {IF techId = NoTech THEN Unassigned ELSE Assigned(techId) :
                        techId \in selectTechnician(tx6.cur.technicians, input.faultType)}

\* createFaultTicketAndAssignment: every outcome one invocation can have
createFaultTicketAndAssignment(db, input) ==
  LET tx0 == Begin(db)
      tx1 == createAutomationEvent(tx0,
               Event("PanelErrorDetected", "panel_error_detected", input.incidentId, NoId, NoId, NoTech))
  IN UNION {LET dupTicket == LatestTicketOf(tx1.cur, duplicate.id)
            IN IF dupTicket # NoTicket
               THEN DeduplicatedOutcomes(tx0, tx1, input, duplicate, dupTicket)
               ELSE CreatedOutcomes(tx0, tx1, input) :
              duplicate \in findDuplicateFault(tx1.cur, input.panelId, input.faultType, input.detectedAt)}

-----------------------------------------------------------------------------
(* The record of the request handled last *)

\* one invocation of the workflow made by a handler
Call(db, input, outcome) ==
  [input |-> input, err |-> outcome.err, result |-> outcome.result,
   activeBefore |-> SumActive(db.technicians, TechIds)]

Request(op, calls, resp) ==
  [op |-> op, calls |-> calls, resp |-> resp,
   ticketId |-> NoId, status |-> "", resolving |-> FALSE, techId |-> NoTech,
   alertId |-> NoId, previousStatus |-> "", bodyTicketId |-> NoId,
   bodyTechId |-> "undefined"]

\* the store after a handler
Store(db) ==
  /\ technicians' = db.technicians
  /\ faults' = db.faults
  /\ tickets' = db.tickets
  /\ alerts' = db.alerts
  /\ events' = db.events
  /\ seq' = db.seq

-----------------------------------------------------------------------------
(* Initial state: the seeded farm, no fault, ticket, alert or event yet *)

Init ==
  /\ now = 0
  /\ panelStatus = [p \in PanelIds |-> "healthy"]
  /\ technicians = InitTechnicians
  /\ faults = <<>>
  /\ tickets = <<>>
  /\ alerts = <<>>
  /\ events = <<>>
  /\ scans = <<>>
  /\ seq = InitSeq
  /\ last = Request("init", <<>>, "")
  /\ running = [p \in Procs |-> Idle]

\* time passes
Tick ==
  /\ \E t \in Times : t > now
  /\ now' = CHOOSE t \in Times : t > now /\ \A u \in Times : u > now => t <= u
  /\ UNCHANGED <<panelStatus, technicians, faults, tickets, alerts, events, scans, seq, last, running>>

-----------------------------------------------------------------------------
(* POST /api/automation/panel-error *)

FaultTypes == {"panel_fault", "voltage_fault"}

\* generateIncidentId: INC-<ms>-<random>, a fresh id
generateIncidentId(db) == db.seq.incident

PanelError(panelId, faultType, severity, detectedAt, bodyIncidentId) ==
  /\ seq.incident <= MaxCalls
  /\ seq.ticket <= MaxTickets
  /\ LET incidentId == IF bodyIncidentId # NoId THEN bodyIncidentId ELSE generateIncidentId(DB)
         db0 == [DB EXCEPT !.seq.incident = @ + 1]
         input == WorkflowInput(incidentId, panelId, faultType, normalizeSeverity(severity),
                                detectedAt, "", 0, "")
     IN \E outcome \in createFaultTicketAndAssignment(db0, input) :
          /\ Store(outcome.db)
          /\ last' = Request("panelError", <<Call(db0, input, outcome)>>,
                             IF outcome.err THEN "500" ELSE "201")
  /\ UNCHANGED <<now, panelStatus, scans, running>>

-----------------------------------------------------------------------------
(* POST /api/faults/panel-status-alert *)

STATUS_ALERT_WINDOW_MINUTES == 10

buildStatusAlertMetadata(status) ==
  IF status = "fault" THEN [severity |-> "critical", faultType |-> "panel_fault"]
  ELSE [severity |-> "medium", faultType |-> "panel_warning"]

\* a fault row without a ticket, unless the row has a recent fault of the type
PanelStatusAlert(panelId, status) ==
  /\ seq.fault <= MaxCalls + 1
  /\ LET metadata == buildStatusAlertMetadata(status)
         tenMinutesAgo == now - STATUS_ALERT_WINDOW_MINUTES
         recentExisting == {f \in Range(faults) :
                              /\ f.panelId \in panelIdsInRow(panelId)
                              /\ f.faultType = metadata.faultType
                              /\ f.detectedAt >= tenMinutesAgo}
     IN IF recentExisting # {}
        THEN /\ last' = Request("panelStatusAlert", <<>>, "200")
             /\ UNCHANGED <<faults, seq>>
        ELSE /\ faults' = Append(faults, [id |-> seq.fault, panelId |-> panelId,
                                          faultType |-> metadata.faultType,
                                          detectedAt |-> now])
             /\ seq' = [seq EXCEPT !.fault = @ + 1]
             /\ last' = Request("panelStatusAlert", <<>>, "201")
  /\ UNCHANGED <<now, panelStatus, technicians, tickets, alerts, events, scans, running>>

-----------------------------------------------------------------------------
(* The tickets router *)

ManualTicketNumbers == {TicketNo("TCK", 1), TicketNo("FK", 2)}
TicketStatuses == {"open", "in_progress", "resolved", "closed"}

\* POST /api/tickets
PostTicket(ticketNumber, status, assignedTechnicianId, faultId) ==
  /\ seq.ticket <= MaxTickets
  /\ IF TicketNumberTaken(tickets, ticketNumber)
     THEN /\ last' = Request("postTicket", <<>>, "500")
          /\ UNCHANGED <<tickets, seq>>
     ELSE /\ tickets' = Append(tickets,
                [id |-> seq.ticket, ticketNumber |-> ticketNumber, faultId |-> faultId,
                 panelId |-> "none", status |-> status, priority |-> "medium",
                 assignedTechnicianId |-> assignedTechnicianId])
          /\ seq' = [seq EXCEPT !.ticket = @ + 1]
          /\ last' = [Request("postTicket", <<>>, "201") EXCEPT !.ticketId = seq.ticket,
                                                                !.techId = assignedTechnicianId]
  /\ UNCHANGED <<now, panelStatus, technicians, faults, alerts, events, scans, running>>

TicketIndex(tks, id) == CHOOSE i \in 1..Len(tks) : tks[i].id = id
HasTicket(tks, id) == \E i \in 1..Len(tks) : tks[i].id = id
RemoveTicket(tks, id) == SelectSeq(tks, LAMBDA t : t.id # id)

\* Faulty variant: every status of the body counts as a resolution.
isResolvingAnyChange(status, currentTicket) ==
  /\ status # ""
  /\ currentTicket.status # "resolved"
  /\ currentTicket.status # "closed"

\* Faulty variant: the stored status of the ticket is not looked at.
isResolvingAnyStatus(status, currentTicket) ==
  status \in {"resolved", "closed"}

isResolving(status, currentTicket) ==
  /\ status \in {"resolved", "closed"}
  /\ currentTicket.status # "resolved"
  /\ currentTicket.status # "closed"

\* Faulty variant: the reversal makes a busy technician available again once
\* the workload is back under the threshold.
resolveTechnicianFreeing(techs, technicianId) ==
  [techs EXCEPT ![technicianId] =
     [@ EXCEPT !.activeTickets = @ - 1, !.resolvedTickets = @ + 1,
               !.status = IF techs[technicianId].status = "busy"
                             /\ techs[technicianId].activeTickets - 1 < BUSY_THRESHOLD
                          THEN "available" ELSE @]]

resolveTechnicianActiveOnly(techs, technicianId) ==
  [techs EXCEPT ![technicianId] = [@ EXCEPT !.activeTickets = @ - 1]]

\* the technician.update of a resolving patch
resolveTechnician(techs, technicianId) ==
  [techs EXCEPT ![technicianId] =
     [@ EXCEPT !.activeTickets = @ - 1, !.resolvedTickets = @ + 1]]

\* PATCH /api/tickets/:id; status = "" and assignedTechnicianId = "undefined"
\* stand for fields absent from the body
PatchTicket(id, status, assignedTechnicianId) ==
  /\ IF ~HasTicket(tickets, id)
     THEN /\ last' = [Request("patchTicket", <<>>, "404") EXCEPT !.ticketId = id,
                                                                 !.status = status,
                                                                 !.bodyTechId = assignedTechnicianId]
          /\ UNCHANGED <<technicians, tickets>>
     ELSE LET currentTicket == tickets[TicketIndex(tickets, id)]
              resolving == isResolving(status, currentTicket)
              updated == [currentTicket EXCEPT
                            !.status = IF status # "" THEN status ELSE @,
                            !.assignedTechnicianId =
                               IF assignedTechnicianId # "undefined"
                               THEN assignedTechnicianId ELSE @]
          IN /\ technicians' =
                  IF resolving /\ currentTicket.assignedTechnicianId # NoTech
                  THEN resolveTechnician(technicians, currentTicket.assignedTechnicianId)
                  ELSE technicians
             /\ tickets' =
                  IF resolving THEN RemoveTicket(tickets, id)
                  ELSE [tickets EXCEPT ![TicketIndex(tickets, id)] = updated]
             /\ last' = [Request("patchTicket", <<>>, IF resolving THEN "deleted" ELSE "200")
                           EXCEPT !.ticketId = id, !.status = status,
                                  !.resolving = resolving,
                                  !.techId = currentTicket.assignedTechnicianId,
                                  !.bodyTechId = assignedTechnicianId]
  /\ UNCHANGED <<now, panelStatus, faults, alerts, events, scans, seq, running>>

\* DELETE /api/tickets/all
DeleteAllTickets ==
  /\ tickets' = <<>>
  /\ last' = Request("deleteAllTickets", <<>>, "200")
  /\ UNCHANGED <<now, panelStatus, technicians, faults, alerts, events, scans, seq, running>>

-----------------------------------------------------------------------------
(* The technicians router *)

\* PATCH /api/technicians/:id/status
PatchTechnicianStatus(id, status) ==
  /\ technicians' = [technicians EXCEPT ![id].status = status]
  /\ last' = [Request("patchTechnicianStatus", <<>>, "200") EXCEPT !.techId = id]
  /\ UNCHANGED <<now, panelStatus, faults, tickets, alerts, events, scans, seq, running>>

-----------------------------------------------------------------------------
(* The panels router: it writes SolarPanel.status *)

PanelStatusChange(panelId, status) ==
  /\ panelStatus[panelId] # status
  /\ panelStatus' = [panelStatus EXCEPT ![panelId] = status]
  /\ last' = Request("panelStatusChange", <<>>, "200")
  /\ UNCHANGED <<now, technicians, faults, tickets, alerts, events, scans, seq, running>>

-----------------------------------------------------------------------------
(* The alerts router *)

NoAlert == [id |-> NoId, alertId |-> NoId, zone |-> "", row |-> 0, status |-> "",
            dismissed |-> FALSE, ticketId |-> NoId]

AlertIndex(rows, id) == CHOOSE i \in 1..Len(rows) : rows[i].id = id
HasAlert(rows, id) == \E i \in 1..Len(rows) : rows[i].id = id

\* where zone, row, dismissed = false
ActiveAlerts(rows, zone, row) ==
  {a \in Range(rows) : a.zone = zone /\ a.row = row /\ ~a.dismissed}

\* generateAlertId: ALERT ID-AK-<n>, one more than the number of the alert
\* created last; 1 when that alert has no alertId.  Carried as the integer n.
generateAlertId(rows) ==
  IF Len(rows) = 0 THEN 1
  ELSE LET latestAlert == rows[Len(rows)]
       IN IF latestAlert.alertId # NoId THEN latestAlert.alertId + 1 ELSE 1

\* where zone.name, row of the solarPanel.findFirst
panelsOfRow(zone, row) ==
  {p \in PanelIds : Panels[p].zone = zone /\ Panels[p].row = row}

\* what a helper leaves: the store and the workflow invocations it made
Handled(db, calls) == [db |-> db, calls |-> calls]

linkTicket(db, id, ticketId) ==
  [db EXCEPT !.alerts[AlertIndex(db.alerts, id)].ticketId = ticketId]

\* Faulty variant: the helper does not invoke the workflow for an alert in fault.
createTicketForAlertWarningOnly(db, alert, at) ==
  IF panelsOfRow(alert.zone, alert.row) = {} \/ alert.status = "fault"
  THEN {Handled(db, <<>>)}
  ELSE UNION
    {LET db0 == [db EXCEPT !.seq.incident = @ + 1]
         input == WorkflowInput(generateIncidentId(db), panelId, "low_voltage_warning",
                                "medium", at, alert.zone, alert.row, alert.status)
     IN {Handled(IF outcome.err THEN outcome.db
                 ELSE linkTicket(outcome.db, alert.id, outcome.result.ticketId),
                 <<Call(db0, input, outcome)>>) :
           outcome \in createFaultTicketAndAssignment(db0, input)} :
       panelId \in panelsOfRow(alert.zone, alert.row)}

\* createTicketForAlert: no invocation when the row has no panel; the error
\* of an invocation is caught
createTicketForAlert(db, alert, at) ==
  IF panelsOfRow(alert.zone, alert.row) = {} THEN {Handled(db, <<>>)}
  ELSE UNION
    {LET db0 == [db EXCEPT !.seq.incident = @ + 1]
         input == WorkflowInput(generateIncidentId(db), panelId,
                                IF alert.status = "fault" THEN "voltage_fault"
                                ELSE "low_voltage_warning",
                                IF alert.status = "fault" THEN "critical" ELSE "medium",
                                at, alert.zone, alert.row, alert.status)
     IN {Handled(IF outcome.err THEN outcome.db
                 ELSE linkTicket(outcome.db, alert.id, outcome.result.ticketId),
                 <<Call(db0, input, outcome)>>) :
           outcome \in createFaultTicketAndAssignment(db0, input)} :
       panelId \in panelsOfRow(alert.zone, alert.row)}

AlertStatuses == {"warning", "fault", "healthy"}

newAlert(db, alertId, zone, row, status, ticketId) ==
  [db EXCEPT !.alerts = Append(@, [id |-> db.seq.alert, alertId |-> alertId,
                                   zone |-> zone, row |-> row, status |-> status,
                                   dismissed |-> FALSE, ticketId |-> ticketId]),
             !.seq.alert = @ + 1]

\* POST /api/alerts; bodyTicketId = NoId stands for a body without ticketId
AlertUpsert(zone, row, status, bodyTicketId) ==
  /\ seq.incident <= MaxCalls
  /\ seq.ticket <= MaxTickets
  /\ LET active == ActiveAlerts(alerts, zone, row)
     IN \E existingAlert \in (IF active = {} THEN {NoAlert} ELSE active) :
          IF existingAlert # NoAlert
          THEN LET previousStatus == existingAlert.status
                   updatedAlert == [existingAlert EXCEPT
                                      !.status = status,
                                      !.ticketId = IF bodyTicketId # NoId
                                                   THEN bodyTicketId ELSE @]
                   db1 == [DB EXCEPT !.alerts[AlertIndex(alerts, existingAlert.id)] = updatedAlert]
                   missing == IF status \in {"warning", "fault"} /\ updatedAlert.ticketId = NoId
                              THEN createTicketForAlert(db1, updatedAlert, now)
                              ELSE {Handled(db1, <<>>)}
               IN \E h1 \in missing :
                  \E h2 \in (IF previousStatus = "warning" /\ status = "fault"
                             THEN createTicketForAlert(h1.db, updatedAlert, now)
                             ELSE {Handled(h1.db, <<>>)}) :
                    /\ Store(h2.db)
                    /\ last' = [Request("alertUpsert", h1.calls \o h2.calls, "200")
                                  EXCEPT !.alertId = existingAlert.id, !.status = status,
                                         !.previousStatus = previousStatus,
                                         !.bodyTicketId = bodyTicketId]
          ELSE /\ seq.alert <= MaxAlerts
               /\ LET db1 == newAlert(DB, generateAlertId(alerts), zone, row, status, bodyTicketId)
                      alert == db1.alerts[Len(db1.alerts)]
                  IN \E h \in (IF status \in {"warning", "fault"}
                               THEN createTicketForAlert(db1, alert, now)
                               ELSE {Handled(db1, <<>>)}) :
                       /\ Store(h.db)
                       /\ last' = [Request("alertUpsert", h.calls, "200")
                                     EXCEPT !.alertId = alert.id, !.status = status,
                                            !.bodyTicketId = bodyTicketId]
  /\ UNCHANGED <<now, panelStatus, scans, running>>

\* DELETE /api/alerts/:id
AlertDelete(id) ==
  /\ IF HasAlert(alerts, id)
     THEN /\ alerts' = SelectSeq(alerts, LAMBDA a : a.id # id)
          /\ last' = [Request("alertDelete", <<>>, "200") EXCEPT !.alertId = id]
     ELSE /\ alerts' = alerts
          /\ last' = [Request("alertDelete", <<>>, "500") EXCEPT !.alertId = id]
  /\ UNCHANGED <<now, panelStatus, technicians, faults, tickets, events, scans, seq, running>>

\* POST /api/alerts/dismiss; status = "" stands for a body without status
AlertDismiss(zone, row, status) ==
  /\ alerts' = [i \in 1..Len(alerts) |->
                  IF alerts[i] \in ActiveAlerts(alerts, zone, row)
                  THEN [alerts[i] EXCEPT !.dismissed = TRUE,
                                         !.status = IF status # "" THEN status ELSE @]
                  ELSE alerts[i]]
  /\ last' = [Request("alertDismiss", <<>>, "200") EXCEPT !.status = status]
  /\ UNCHANGED <<now, panelStatus, technicians, faults, tickets, events, scans, seq, running>>

\* the rows of the farm, in the order their first panel comes
RowOrder == <<[zone |-> "A", row |-> 1], [zone |-> "B", row |-> 1], [zone |-> "A", row |-> 2]>>

\* Faulty variant: only the panels in fault put their row into the map.
rowStatusFaultOnly(zone, row) ==
  IF \E p \in panelsOfRow(zone, row) : panelStatus[p] = "fault" THEN "fault"
  ELSE ""

\* rowStatuses of the sync: fault if any panel of the row is in fault, else
\* warning if any is in warning; "" for a row that is not in the map
rowStatus(zone, row) ==
  IF \E p \in panelsOfRow(zone, row) : panelStatus[p] = "fault" THEN "fault"
  ELSE IF \E p \in panelsOfRow(zone, row) : panelStatus[p] = "warning" THEN "warning"
  ELSE ""

\* Promise.all of generateAlertId and alert.create: an id is read from the
\* table as it was before the sync or as the creates before it left it
RECURSIVE createAlerts(_, _, _, _)
createAlerts(db, base, news, k) ==
  IF k > Len(news) THEN {db}
  ELSE UNION {createAlerts(newAlert(db, alertId, news[k].zone, news[k].row,
                                    rowStatus(news[k].zone, news[k].row), NoId),
                           base, news, k + 1) :
                alertId \in {generateAlertId(base), generateAlertId(db.alerts)}}

\* for (const alert of createdAlerts) await createTicketForAlert(alert)
RECURSIVE ticketsForAlerts(_, _, _, _)
ticketsForAlerts(h, ids, k, at) ==
  IF k > Len(ids) THEN {h}
  ELSE UNION {ticketsForAlerts(Handled(h2.db, h.calls \o h2.calls), ids, k + 1, at) :
                h2 \in createTicketForAlert(h.db, h.db.alerts[AlertIndex(h.db.alerts, ids[k])], at)}

\* POST /api/alerts/sync
AlertSync ==
  /\ seq.alert <= MaxAlerts
  /\ seq.incident <= MaxCalls
  /\ seq.ticket <= MaxTickets
  /\ LET existingAlerts == {a \in Range(alerts) : ~a.dismissed}
         newAlerts == SelectSeq(RowOrder, LAMBDA r :
                        /\ rowStatus(r.zone, r.row) # ""
                        /\ ~\E a \in existingAlerts :
                              /\ a.zone = r.zone /\ a.row = r.row
                              /\ a.status = rowStatus(r.zone, r.row))
         createdIds == [k \in 1..Len(newAlerts) |-> seq.alert + k - 1]
     IN \E db1 \in createAlerts(DB, alerts, newAlerts, 1) :
        \E h \in ticketsForAlerts(Handled(db1, <<>>), createdIds, 1, now) :
          /\ Store([h.db EXCEPT !.alerts =
                      [i \in 1..Len(@) |->
                         IF @[i] \in existingAlerts /\ rowStatus(@[i].zone, @[i].row) = ""
                         THEN [@[i] EXCEPT !.dismissed = TRUE] ELSE @[i]]])
          /\ last' = Request("alertSync", h.calls, "200")
  /\ UNCHANGED <<now, panelStatus, scans, running>>

-----------------------------------------------------------------------------
(* The scan ingest: POST /api/solar-scans and its deferred automation *)

AUTO_TICKET_THRESHOLD == 3

\* resolvePanel(): findFirst where status not offline, orderBy lastChecked
\* desc; the empty set for null
resolvePanel ==
  LET online == {p \in PanelIds : panelStatus[p] # "offline"}
  IN {p \in online : \A q \in online : Panels[q].lastChecked <= Panels[p].lastChecked}

\* POST /api/solar-scans with a body without timestamp (new Date())
ScanIngest(hasFaulty, dustyPanelCount, severity, autoProcess) ==
  /\ seq.scan <= MaxScans
  /\ seq.alert <= MaxAlerts
  /\ LET normalizedSeverity == normalizeSeverity(severity)
         shouldAutoCreateTicket ==
           /\ autoProcess
           /\ \/ normalizedSeverity \in {"critical", "high", "medium"}
              \/ dustyPanelCount >= AUTO_TICKET_THRESHOLD
              \/ hasFaulty
         scan == [id |-> seq.scan, timestamp |-> now, hasFaulty |-> hasFaulty,
                  dustyPanelCount |-> dustyPanelCount, severity |-> normalizedSeverity,
                  status |-> IF shouldAutoCreateTicket THEN "processing" ELSE "pending",
                  timer |-> shouldAutoCreateTicket, source |-> "http"]
         db1 == [DB EXCEPT !.seq.scan = @ + 1]
     IN /\ scans' = Append(scans, scan)
        /\ IF /\ dustyPanelCount > 0 \/ hasFaulty \/ normalizedSeverity \in {"critical", "high"}
              /\ resolvePanel # {}
           THEN \E panel \in resolvePanel :
                  Store(newAlert(db1, NoId, Panels[panel].zone, Panels[panel].row,
                                 IF hasFaulty \/ normalizedSeverity = "critical"
                                 THEN "fault" ELSE "warning", NoId))
           ELSE Store(db1)
        /\ last' = Request("scanIngest", <<>>, "201")
  /\ UNCHANGED <<now, panelStatus, running>>

ScanIndex(rows, id) == CHOOSE i \in 1..Len(rows) : rows[i].id = id
RemoveScan(rows, id) == SelectSeq(rows, LAMBDA r : r.id # id)

\* the callback of setTimeout(..., 3000) of the scan ingest
ScanAutomation(scanId) ==
  /\ \E i \in 1..Len(scans) :
        scans[i].id = scanId /\ scans[i].timer /\ scans[i].source = "http"
  /\ LET scan == scans[ScanIndex(scans, scanId)]
         held == [scans EXCEPT ![ScanIndex(scans, scanId)] =
                    [@ EXCEPT !.status = "pending", !.timer = FALSE]]
     IN IF resolvePanel = {}
        THEN /\ scans' = held
             /\ last' = Request("scanAutomation", <<>>, "no_panel")
             /\ UNCHANGED <<technicians, faults, tickets, alerts, events, seq>>
        ELSE
        \E panel \in resolvePanel :
          LET derivedFaultType ==
                IF scan.hasFaulty THEN "thermal_fault"
                ELSE IF scan.dustyPanelCount >= AUTO_TICKET_THRESHOLD THEN "dust_accumulation"
                ELSE "scan_anomaly"
              dedupeFrom == now - DEDUPE_WINDOW_MINUTES
              existingFault == {f \in Range(faults) :
                                  /\ f.panelId \in panelIdsInRow(panel)
                                  /\ f.detectedAt >= dedupeFrom}
              db0 == [DB EXCEPT !.seq.incident = @ + 1]
              input == WorkflowInput(generateIncidentId(DB), panel, derivedFaultType,
                                     scan.severity, scan.timestamp,
                                     Panels[panel].zone, Panels[panel].row,
                                     IF scan.hasFaulty \/ scan.severity = "critical"
                                     THEN "fault" ELSE "warning")
          IN IF existingFault # {}
             THEN /\ scans' = RemoveScan(scans, scanId)
                  /\ last' = Request("scanAutomation", <<>>, "skipped")
                  /\ UNCHANGED <<technicians, faults, tickets, alerts, events, seq>>
             ELSE \E outcome \in createFaultTicketAndAssignment(db0, input) :
                    /\ Store(outcome.db)
                    /\ scans' = IF outcome.err THEN held ELSE RemoveScan(scans, scanId)
                    /\ last' = Request("scanAutomation", <<Call(db0, input, outcome)>>,
                                       IF outcome.err THEN "error" ELSE "processed")
  /\ UNCHANGED <<now, panelStatus, running>>

-----------------------------------------------------------------------------
(* Inputs of the requests *)

ErrorPanels == {"p1", "p2", "p4"}
BodyIncidentIds == {NoId, 1}

\* the physical row of a panel: its zone and its row number
RowOf(panelId) == <<Panels[panelId].zone, Panels[panelId].row>>

\* a step that invokes the workflow draws one incident id per invocation
Invoked(n) == seq'.incident = seq.incident + n

-----------------------------------------------------------------------------
(* Spec: the workflow under anomaly reports and ticket resolutions *)

Report ==
  \E panelId \in ErrorPanels, faultType \in FaultTypes, detectedAt \in ReportTimes :
    PanelError(panelId, faultType, "high", detectedAt, NoId)

Resolve ==
  \E id \in 1..MaxTickets, status \in {"resolved", "closed"} :
    PatchTicket(id, status, "undefined")

Next ==
  \/ Report
  \/ Resolve

Spec == Init /\ [][Next]_vars

-----------------------------------------------------------------------------
(* SpecDedup: the dedup window over time, with the faults that panel       *)
(* status alerts create without a ticket                                    *)

ReportRow ==
  \E panelId \in {"p1", "p2"}, detectedAt \in ReportTimes :
    PanelError(panelId, "panel_fault", "high", detectedAt, NoId)

StatusAlert == PanelStatusAlert("p1", "fault")

NextDedup ==
  \/ Tick
  \/ ReportRow
  \/ StatusAlert
  \/ Resolve

SpecDedup == Init /\ [][NextDedup]_vars

-----------------------------------------------------------------------------
(* C1 *)

\* two invocations one after the other: the request before this step and
\* the request of this step are both committed panel-error reports
TwoReports ==
  /\ last.op = "panelError" /\ last'.op = "panelError" /\ Invoked(1)
  /\ ~last.calls[1].err /\ ~last'.calls[1].err

SameRowAndType(i1, i2) ==
  /\ RowOf(i1.panelId) = RowOf(i2.panelId)
  /\ i1.faultType = i2.faultType

WithinWindow(d1, d2) ==
  /\ d2 - d1 <= DEDUPE_WINDOW_MINUTES
  /\ d1 - d2 <= DEDUPE_WINDOW_MINUTES

\* C1: two invocations in a row for panels of one row, with the same
\* faultType and the second detectedAt within the dedup window of the first,
\* leave exactly one ticket for the two; the second returns deduplicated with
\* the fault and ticket of the first; the sum of activeTickets over both
\* calls grows by at most 1.
C1_DedupIdempotence ==
  [][ (/\ TwoReports
       /\ SameRowAndType(last.calls[1].input, last'.calls[1].input)
       /\ WithinWindow(last.calls[1].input.detectedAt, last'.calls[1].input.detectedAt))
      => LET r1 == last.calls[1].result
             r2 == last'.calls[1].result
         IN /\ r2.deduplicated
            /\ r2.faultId = r1.faultId
            /\ r2.ticketId = r1.ticketId
            /\ Cardinality({t \in Range(tickets') : t.id \in {r1.ticketId, r2.ticketId}}) = 1
            /\ SumActive(technicians', TechIds) - last.calls[1].activeBefore <= 1 ]_vars

-----------------------------------------------------------------------------
(* SpecTech: the workflow while technicians change their status *)

ReportVoltage ==
  \E panelId \in {"p1", "p2"}, bodyIncidentId \in BodyIncidentIds :
    PanelError(panelId, "voltage_fault", "high", now, bodyIncidentId)

Close == \E id \in 1..MaxTickets : PatchTicket(id, "closed", "undefined")

TechnicianStatus ==
  \E id \in TechIds, status \in TechStatuses : PatchTechnicianStatus(id, status)

NextTech ==
  \/ ReportVoltage
  \/ Close
  \/ TechnicianStatus

SpecTech == Init /\ [][NextTech]_vars

-----------------------------------------------------------------------------
(* Steps of the workflow seen from outside *)

\* this step is a panel-error request
Reported == last'.op = "panelError" /\ Invoked(1)

\* the events this step appended
Appended == SubSeq(events', Len(events) + 1, Len(events'))

Stages(evs) == [i \in 1..Len(evs) |-> evs[i].stage]

\* GET /api/automation/incidents/:incidentId/events
getIncidentEvents(evs, incidentId) ==
  SelectSeq(evs, LAMBDA e : e.incidentId = incidentId)

-----------------------------------------------------------------------------
(* C6 *)

-----------------------------------------------------------------------------
(* C8 *)

TrailDeduplicated == <<"panel_error_detected", "deduplicated">>
TrailUnavailable == <<"panel_error_detected", "fault_created", "ticket_created",
                      "manual_assignment_required">>
TrailAssigned == <<"panel_error_detected", "fault_created", "ticket_created",
                   "technician_assigned">>

\* C8: a committed invocation appends to its incident exactly one of the
\* three trails, in order and without repetition, and the incident query
\* returns them in that order after what the incident had before.
C8_AuditTrailOrder ==
  [][ (Reported /\ ~last'.calls[1].err)
      => LET incidentId == last'.calls[1].input.incidentId
         IN /\ SubSeq(events', 1, Len(events)) = events
            /\ \A i \in 1..Len(Appended) : Appended[i].incidentId = incidentId
            /\ Stages(Appended) \in {TrailDeduplicated, TrailUnavailable, TrailAssigned}
            /\ Stages(Appended) = TrailDeduplicated <=> last'.calls[1].result.deduplicated
            /\ getIncidentEvents(events', incidentId)
                 = getIncidentEvents(events, incidentId) \o Appended ]_vars

\* an unassigned trail followed by a deduplicated trail
C8_Witness ==
  /\ last.op = "panelError" /\ ~last.calls[1].err
  /\ Stages(events) = TrailUnavailable \o TrailDeduplicated

-----------------------------------------------------------------------------
(* C7 *)

LastEventOf(evs, incidentId) ==
  LET trail == getIncidentEvents(evs, incidentId) IN trail[Len(trail)]

\* what C7 promises of an invocation with the request record req
UnassignedTicketCommitted(req) ==
  LET call == req.calls[1]
  IN /\ Len(faults') = Len(faults) + 1
     /\ faults'[Len(faults')].id = call.result.faultId
     /\ Len(tickets') = Len(tickets) + 1
     /\ LET ticket == tickets'[Len(tickets')]
        IN /\ ticket.id = call.result.ticketId
           /\ ticket.faultId = call.result.faultId
           /\ ticket.status = "open"
           /\ ticket.assignedTechnicianId = NoTech
     /\ call.result.assignedTechnicianId = NoTech
     /\ technicians' = technicians
     /\ LastEventOf(events', call.input.incidentId).eventType = "TechnicianUnavailable"

\* C7 as stated: with no available or busy technician every invocation
\* that returns commits a fault and an open unassigned ticket, returns a
\* null assignee, changes no technician and ends its trail with the
\* technician-unavailable event.
C7_NoTechnicianStillCommits ==
  [][ (Reported /\ ~last'.calls[1].err /\ Candidates(technicians) = {})
      => UnassignedTicketCommitted(last') ]_vars

\* C7 amended: the same, for an invocation that is not deduplicated.
C7_NoTechnicianNoIncrement ==
  [][ (/\ Reported /\ ~last'.calls[1].err /\ Candidates(technicians) = {}
       /\ ~last'.calls[1].result.deduplicated)
      => UnassignedTicketCommitted(last') ]_vars

\* a report committed an unassigned ticket while every technician was offline
C7_Witness ==
  /\ last.op = "panelError" /\ ~last.calls[1].err
  /\ ~last.calls[1].result.deduplicated
  /\ Candidates(technicians) = {}
  /\ HasTicket(tickets, last.calls[1].result.ticketId)
  /\ events[Len(events)].eventType = "TechnicianUnavailable"

-----------------------------------------------------------------------------
(* C9 *)

\* the duplicate check of this request finds a fault with a ticket
DuplicateWithTicket(input) ==
  \A d \in findDuplicateFault(DB, input.panelId, input.faultType, input.detectedAt) :
     LatestTicketOf(DB, d.id) # NoTicket

-----------------------------------------------------------------------------
(* SpecTickets: the technician counters under the workflow and the tickets *)
(* router                                                                   *)

ReportOne == PanelError("p1", "voltage_fault", "high", 0, NoId)

CreateTicket ==
  \E ticketNumber \in ManualTicketNumbers : PostTicket(ticketNumber, "open", "t1", NoId)

\* a status patch or an assignment patch
UpdateTicket ==
  \E id \in 1..MaxTickets :
    \/ \E status \in {"resolved", "closed"} : PatchTicket(id, status, "undefined")
    \/ PatchTicket(id, "", "t2")

NextTickets ==
  \/ ReportOne
  \/ CreateTicket
  \/ UpdateTicket
  \/ DeleteAllTickets

SpecTickets == Init /\ [][NextTickets]_vars

-----------------------------------------------------------------------------
(* C2 *)

\* this step is a PATCH of ticket id asking for status resolved or closed
ResolveRequest(id) ==
  /\ last'.op = "patchTicket" /\ last'.ticketId = id
  /\ last'.status \in {"resolved", "closed"}
  /\ now' = now

AssignedTo(tks, technicianId) ==
  {i \in 1..Len(tks) : tks[i].assignedTechnicianId = technicianId}

\* C2: a PATCH that moves a ticket assigned to technician T from a
\* non-terminal status into resolved or closed decrements T.activeTickets by
\* exactly 1 and increments T.resolvedTickets by exactly 1, changes no other
\* technician and removes the ticket; a resolve/close request for a ticket id
\* that is no longer stored changes no technician and returns not-found.
C2_WorkloadPairing ==
  [][ \A id \in 1..(MaxTickets + 1) :
        ResolveRequest(id) =>
          IF HasTicket(tickets, id)
          THEN LET ticket == tickets[TicketIndex(tickets, id)]
                   T == ticket.assignedTechnicianId
               IN (T # NoTech /\ ticket.status \notin {"resolved", "closed"})
                  => /\ technicians'[T].activeTickets = technicians[T].activeTickets - 1
                     /\ technicians'[T].resolvedTickets = technicians[T].resolvedTickets + 1
                     /\ \A u \in TechIds \ {T} : technicians'[u] = technicians[u]
                     /\ ~HasTicket(tickets', id)
          ELSE /\ technicians' = technicians
               /\ last'.resp = "404" ]_vars

\* the only ticket ever stored was resolved for its technician, and a later
\* resolve request for it was answered not-found
C2_Witness ==
  /\ last.op = "patchTicket" /\ last.resp = "404" /\ last.ticketId = 1
  /\ last.status \in {"resolved", "closed"}
  /\ seq.ticket = 2 /\ tickets = <<>>
  /\ \E T \in TechIds : technicians[T].resolvedTickets = 1

-----------------------------------------------------------------------------
(* C3 *)

\* C3: every technician's activeTickets equals the number of stored tickets
\* assigned to that technician.
C3_ActiveTicketsMatchStored ==
  \A T \in TechIds : technicians[T].activeTickets = Cardinality(AssignedTo(tickets, T))

-----------------------------------------------------------------------------
(* C4 *)

\* C4: every technician's activeTickets and resolvedTickets are at least 0.
C4_CountersNonNegative ==
  \A T \in TechIds : technicians[T].activeTickets >= 0 /\ technicians[T].resolvedTickets >= 0

-----------------------------------------------------------------------------
(* SpecAlerts: the alert row aggregator, the scan ingest and the panel      *)
(* statuses they read                                                       *)

AlertRows == {[zone |-> "A", row |-> 2], [zone |-> "C", row |-> 1]}

StatusChange ==
  \E status \in PanelStatuses : PanelStatusChange("p4", status)

Upsert ==
  \E r \in AlertRows, status \in AlertStatuses :
    AlertUpsert(r.zone, r.row, status, NoId)

UpsertWithTicket ==
  \E r \in AlertRows, status \in AlertStatuses, bodyTicketId \in {NoId, 1} :
    AlertUpsert(r.zone, r.row, status, bodyTicketId)

Dismiss ==
  \E r \in AlertRows : AlertDismiss(r.zone, r.row, "")

Delete == \E id \in 1..MaxAlerts : AlertDelete(id)

Scan ==
  \E hasFaulty \in BOOLEAN : ScanIngest(hasFaulty, 1, "low", TRUE)

DeferredAutomation == \E scanId \in 1..MaxScans : ScanAutomation(scanId)

NextAlerts ==
  \/ StatusChange
  \/ Upsert
  \/ AlertSync
  \/ Dismiss
  \/ Delete
  \/ Scan
  \/ DeferredAutomation

SpecAlerts == Init /\ [][NextAlerts]_vars

-----------------------------------------------------------------------------
(* C5 *)

\* C5: for every zone and row at most one alert with dismissed = false exists.
C5_AlertSingleton ==
  \A a, b \in Range(alerts) :
     (a.zone = b.zone /\ a.row = b.row /\ ~a.dismissed /\ ~b.dismissed) => a.id = b.id

-----------------------------------------------------------------------------
(* SpecEscalation: alerts that change their status under upserts *)

NextEscalation ==
  \/ UpsertWithTicket
  \/ Dismiss
  \/ Delete

SpecEscalation == Init /\ [][NextEscalation]_vars

-----------------------------------------------------------------------------
(* C10 *)

\* this step is an upsert that finds a warning alert and sets it to fault
Escalated ==
  /\ last' # last
  /\ last'.op = "alertUpsert"
  /\ last'.previousStatus = "warning" /\ last'.status = "fault"

\* the alert row is reused: no row is added and the row found is now in fault
AlertRowReused ==
  /\ Len(alerts') = Len(alerts)
  /\ HasAlert(alerts, last'.alertId) /\ HasAlert(alerts', last'.alertId)
  /\ LET before == alerts[AlertIndex(alerts, last'.alertId)]
         after == alerts'[AlertIndex(alerts', last'.alertId)]
     IN /\ before.status = "warning" /\ ~before.dismissed
        /\ after.status = "fault" /\ ~after.dismissed
        /\ after.zone = before.zone /\ after.row = before.row

\* every invocation of this step has the fault parameters of the alert's row
\* and an incident id that no stored event and no other invocation carries
FaultInvocations ==
  LET alert == alerts[AlertIndex(alerts, last'.alertId)]
      calls == last'.calls
  IN \A i \in 1..Len(calls) :
       /\ calls[i].input.faultType = "voltage_fault"
       /\ calls[i].input.severity = "critical"
       /\ calls[i].input.status = "fault"
       /\ calls[i].input.zone = alert.zone /\ calls[i].input.row = alert.row
       /\ calls[i].input.panelId \in panelsOfRow(alert.zone, alert.row)
       /\ \A e \in Range(events) : e.incidentId # calls[i].input.incidentId
       /\ \A j \in 1..Len(calls) : j # i => calls[j].input.incidentId # calls[i].input.incidentId

-----------------------------------------------------------------------------
(* SpecLifecycle: tickets of every status under the patches of the tickets *)
(* router                                                                   *)

\* GET /api/tickets/:id; NoTicket for the 404 answer
getTicket(tks, id) ==
  IF HasTicket(tks, id) THEN tks[TicketIndex(tks, id)] ELSE NoTicket

CreateWithStatus ==
  \E ticketNumber \in ManualTicketNumbers, status \in {"open", "resolved"} :
    PostTicket(ticketNumber, status, "t1", NoId)

PatchStatus ==
  \E id \in 1..MaxTickets, status \in {"in_progress", "resolved", "closed"} :
    PatchTicket(id, status, "undefined")

Reassign == \E id \in 1..MaxTickets : PatchTicket(id, "", "t2")

NextLifecycle ==
  \/ CreateWithStatus
  \/ PatchStatus
  \/ Reassign

SpecLifecycle == Init /\ [][NextLifecycle]_vars

-----------------------------------------------------------------------------
(* C11 *)

\* this step is a PATCH of a stored ticket
PatchedStored ==
  /\ last'.op = "patchTicket" /\ now' = now
  /\ HasTicket(tickets, last'.ticketId)

\* C11: a PATCH with status resolved or closed of a ticket in a non-terminal
\* status answers resolved-and-deleted and the ticket can no longer be read
\* by id; every other PATCH of a stored ticket answers with the updated
\* ticket, which stays readable by id.
C11_ResolutionDestructive ==
  [][ PatchedStored =>
        LET id == last'.ticketId
            before == getTicket(tickets, id)
        IN IF /\ last'.status \in {"resolved", "closed"}
              /\ before.status \notin {"resolved", "closed"}
           THEN /\ last'.resp = "deleted"
                /\ getTicket(tickets', id) = NoTicket
           ELSE /\ last'.resp = "200"
                /\ getTicket(tickets', id) # NoTicket
                /\ last'.status # "" => getTicket(tickets', id).status = last'.status ]_vars

\* a ticket was resolved and deleted while a ticket stored with a terminal
\* status is still readable
C11_Witness ==
  /\ last.op = "patchTicket" /\ last.resp = "deleted"
  /\ getTicket(tickets, last.ticketId) = NoTicket
  /\ \E t \in Range(tickets) : t.status \in {"resolved", "closed"}

-----------------------------------------------------------------------------
(* C12 *)

\* this step is a committed report that went through the technician selector
Selected ==
  /\ Reported /\ ~last'.calls[1].err
  /\ ~last'.calls[1].result.deduplicated

\* C12: the selector never returns an offline technician, and it returns no
\* technician exactly when no technician is available or busy.
C12_SelectorPool ==
  [][ Selected =>
        LET chosen == last'.calls[1].result.assignedTechnicianId
        IN /\ chosen # NoTech =>
                /\ chosen \in TechIds
                /\ technicians[chosen].status # "offline"
           /\ chosen = NoTech <=>
                ~\E t \in TechIds : technicians[t].status \in {"available", "busy"} ]_vars

\* a busy technician was chosen while the other one is offline
C12_Witness ==
  /\ last.op = "panelError" /\ ~last.calls[1].err
  /\ ~last.calls[1].result.deduplicated
  /\ \E T \in TechIds :
       /\ last.calls[1].result.assignedTechnicianId = T
       /\ technicians[T].status = "busy"
       /\ \A u \in TechIds \ {T} : technicians[u].status = "offline"

-----------------------------------------------------------------------------
(* SpecSelect: the technician selector over technician rows as POST        *)
(* /api/technicians stores them (status, activeTickets and                  *)
(* avgResolutionTime are taken from the body)                               *)

WorkloadValues == {0, 1, 2, 5}
ResolutionTimes == {1, 5, 7}

TechnicianRows ==
  [TechIds -> [status : TechStatuses, activeTickets : WorkloadValues,
               avgResolutionTime : ResolutionTimes]]

InitSelect ==
  /\ now = 0
  /\ panelStatus = [p \in PanelIds |-> "healthy"]
  /\ \E rows \in TechnicianRows :
       technicians = [t \in TechIds |->
                        [status |-> rows[t].status,
                         activeTickets |-> rows[t].activeTickets,
                         resolvedTickets |-> 0,
                         skills |-> InitTechnicians[t].skills,
                         avgResolutionTime |-> rows[t].avgResolutionTime]]
  /\ faults = <<>>
  /\ tickets = <<>>
  /\ alerts = <<>>
  /\ events = <<>>
  /\ scans = <<>>
  /\ seq = InitSeq
  /\ last = Request("init", <<>>, "")
  /\ running = [p \in Procs |-> Idle]

ReportType ==
  \E faultType \in FaultTypes : PanelError("p1", faultType, "high", 0, NoId)

NextSelect ==
  \/ ReportType

SpecSelect == InitSelect /\ [][NextSelect]_vars

-----------------------------------------------------------------------------
(* C13 *)

\* C13: the technician chosen has the highest score of the available and
\* busy technicians, the score being (40 if available, 15 if busy) + (30 if
\* a skill matches) + (25 if activeTickets <= 1, 10 if <= 3, else -15) +
\* max(0, 20 - 3 * avgResolutionTime); of technicians with equal scores the
\* one that comes first by activeTickets, then avgResolutionTime, is chosen;
\* an available technician with no active ticket and a matching skill is
\* never passed over for a busy technician with 5 active tickets.
C13_SelectorMaximal ==
  [][ Selected =>
        LET faultType == last'.calls[1].input.faultType
            chosen == last'.calls[1].result.assignedTechnicianId
            pool == {t \in TechIds : technicians[t].status \in {"available", "busy"}}
            points(t) ==
                (IF technicians[t].status = "available" THEN 40 ELSE 15)
              + (IF hasSkill(technicians[t], faultType) THEN 30 ELSE 0)
              + (IF technicians[t].activeTickets <= 1 THEN 25
                 ELSE IF technicians[t].activeTickets <= 3 THEN 10 ELSE 0 - 15)
              + (IF 20 - 3 * technicians[t].avgResolutionTime > 0
                 THEN 20 - 3 * technicians[t].avgResolutionTime ELSE 0)
            earlier(u, t) ==
              \/ technicians[u].activeTickets < technicians[t].activeTickets
              \/ /\ technicians[u].activeTickets = technicians[t].activeTickets
                 /\ technicians[u].avgResolutionTime < technicians[t].avgResolutionTime
        IN pool # {} =>
             /\ chosen \in pool
             /\ \A u \in pool :
                  /\ points(u) <= points(chosen)
                  /\ points(u) = points(chosen) => ~earlier(u, chosen)
             /\ \A a, b \in pool :
                  (/\ technicians[a].status = "available"
                   /\ technicians[a].activeTickets = 0
                   /\ hasSkill(technicians[a], faultType)
                   /\ technicians[b].status = "busy"
                   /\ technicians[b].activeTickets = 5) => chosen # b ]_vars

\* the available technician with the matching skill got its first ticket
\* while the other technician is busy with 5 active tickets
C13_Witness ==
  /\ last.op = "panelError" /\ ~last.calls[1].err
  /\ ~last.calls[1].result.deduplicated
  /\ last.calls[1].input.faultType = "voltage_fault"
  /\ last.calls[1].result.assignedTechnicianId = "t1"
  /\ technicians["t1"].status = "available" /\ technicians["t1"].activeTickets = 1
  /\ technicians["t2"].status = "busy" /\ technicians["t2"].activeTickets = 5

-----------------------------------------------------------------------------
(* SpecZones: reports from panels with one row number in two zones *)

ReportZones ==
  \E panelId \in {"p1", "p3"}, faultType \in FaultTypes, detectedAt \in ReportTimes :
    PanelError(panelId, faultType, "high", detectedAt, NoId)

NextZones ==
  \/ ReportZones
  \/ Close

SpecZones == Init /\ [][NextZones]_vars

-----------------------------------------------------------------------------
(* C14 *)

\* the stored fault with this id
FaultOf(rows, id) == rows[CHOOSE i \in 1..Len(rows) : rows[i].id = id]

\* C14: a report is deduplicated only against a fault on a panel of its own
\* physical row: the fault returned by a deduplicated invocation is on a
\* panel with the zone and the row number of the reporting panel.
C14_DedupScopedToZoneAndRow ==
  [][ (Reported /\ ~last'.calls[1].err /\ last'.calls[1].result.deduplicated)
      => LET call == last'.calls[1]
             duplicate == FaultOf(faults, call.result.faultId)
         IN /\ Panels[duplicate.panelId].zone = Panels[call.input.panelId].zone
            /\ Panels[duplicate.panelId].row = Panels[call.input.panelId].row ]_vars

-----------------------------------------------------------------------------
(* C15 *)

\* this step is the deferred automation of an ingested scan
Deferred == last'.op = "scanAutomation" /\ scans' # scans

OutcomeStages == {"technician_assigned", "manual_assignment_required", "deduplicated"}

\* C15, for the scan ingest: the deferred automation of an accepted scan
\* that meets no storage error invokes the workflow, ends with a stored
\* ticket (created or reused) and leaves the AutomationEvents of its incident
\* ending with the event of its outcome: technician assigned, technician
\* unavailable or deduplicated.
C15_NoAnomalyDropped ==
  [][ (Deferred /\ last'.resp # "error")
      => /\ Len(last'.calls) = 1
         /\ HasTicket(tickets', last'.calls[1].result.ticketId)
         /\ LastEventOf(events', last'.calls[1].input.incidentId).stage \in OutcomeStages ]_vars

-----------------------------------------------------------------------------
(* C16 *)

\* this step committed the transaction of at least one workflow invocation
WorkflowCommitted ==
  /\ seq'.incident > seq.incident
  /\ \E i \in 1..Len(last'.calls) : ~last'.calls[i].err

\* C16: the technician rows (activeTickets, resolvedTickets, status) and the
\* alert rows change only in a step that commits the transaction of
\* createFaultTicketAndAssignment.
C16_WritesOnlyInWorkflow ==
  [][ (technicians' # technicians \/ alerts' # alerts) => WorkflowCommitted ]_vars

-----------------------------------------------------------------------------
(* C17 *)

\* the suffixes issued so far, as the ticket_created events recorded them
IssuedSuffixes(evs) ==
  {evs[i].payload.n : i \in {j \in 1..Len(evs) : evs[j].stage = "ticket_created"}}

\* C17: the numeric suffix of the number of a newly created ticket is
\* strictly greater than the suffix of every ticket number issued before it,
\* whatever tickets have been resolved and deleted in between.
C17_TicketSuffixIncreasing ==
  [][ Selected =>
        \A n \in IssuedSuffixes(events) : last'.calls[1].result.ticketNumber.n > n ]_vars

-----------------------------------------------------------------------------
(* C18 *)

\* some stored fault of the row and type of the input, not older than the
\* window before its detectedAt, still has a stored ticket
TicketedFaultInWindow(input) ==
  \E f \in Range(faults) :
     /\ RowOf(f.panelId) = RowOf(input.panelId)
     /\ f.faultType = input.faultType
     /\ f.detectedAt >= input.detectedAt - DEDUPE_WINDOW_MINUTES
     /\ LatestTicketOf(DB, f.id) # NoTicket

\* C18: after any history of invocations, resolutions and panel status
\* alerts, an invocation for a row and faultType of which some fault in the
\* window still has a stored ticket returns deduplicated, creates no fault
\* and no ticket and changes no technician.
C18_RerunIsNoOp ==
  [][ (Reported /\ ~last'.calls[1].err /\ TicketedFaultInWindow(last'.calls[1].input))
      => /\ last'.calls[1].result.deduplicated
         /\ faults' = faults
         /\ tickets' = tickets
         /\ technicians' = technicians ]_vars

-----------------------------------------------------------------------------
(* The workflow between its awaits: invocations in flight at once.  Every  *)
(* statement of a transaction reads what is committed at that moment (read *)
(* committed) and the writes of its own transaction, which are held in the  *)
(* slot of the invocation until the commit.                                 *)

\* a commit adds its rows where their createdAt puts them: ids are drawn in
\* creation order
InsertById(rows, r) ==
  SelectSeq(rows, LAMBDA x : x.id < r.id) \o <<r>> \o SelectSeq(rows, LAMBDA x : x.id > r.id)

\* an invocation that holds an inserted, uncommitted ticket
HoldsTicket(q) == running[q].pc \in {"ticketed", "selected"}

\* the transaction opens, writes the detected event and runs findDuplicateFault
WfCheck(p, panelId, faultType, detectedAt) ==
  /\ running[p] = Idle
  /\ seq.incident <= MaxCalls
  /\ LET input == WorkflowInput(generateIncidentId(DB), panelId, faultType, "high",
                                detectedAt, "", 0, "")
         detected == Event("PanelErrorDetected", "panel_error_detected", input.incidentId,
                           NoId, NoId, NoTech)
     IN \E duplicate \in findDuplicateFault(DB, panelId, faultType, detectedAt) :
          LET dupTicket == LatestTicketOf(DB, duplicate.id)
          IN running' = [running EXCEPT ![p] =
               [pc |-> IF dupTicket # NoTicket THEN "duplicate" ELSE "checked",
                input |-> input, evs |-> <<detected>>,
                duplicate |-> duplicate, dupTicket |-> dupTicket,
                fault |-> NoFault, ticketNumber |-> TicketNo("", 0), ticket |-> NoTicket,
                technician |-> NoTech, read |-> InitTechnicians["t1"]]]
  /\ seq' = [seq EXCEPT !.incident = @ + 1]
  /\ UNCHANGED <<now, panelStatus, technicians, faults, tickets, alerts, events, scans, last>>

\* the duplicate branch: the deduplicated event, return, commit
WfDuplicate(p) ==
  /\ running[p].pc = "duplicate"
  /\ LET r == running[p]
         result == [deduplicated |-> TRUE, faultId |-> r.duplicate.id,
                    ticketId |-> r.dupTicket.id, ticketNumber |-> r.dupTicket.ticketNumber,
                    assignedTechnicianId |-> r.dupTicket.assignedTechnicianId]
     IN /\ events' = events \o r.evs \o
                       <<Event("DuplicateFaultIgnored", "deduplicated", r.input.incidentId,
                               r.duplicate.id, r.dupTicket.id, NoTech)>>
        /\ last' = Request("panelError", <<Call(DB, r.input, Outcome(DB, FALSE, result))>>, "201")
  /\ running' = [running EXCEPT ![p] = Idle]
  /\ UNCHANGED <<now, panelStatus, technicians, faults, tickets, alerts, scans, seq>>

\* faultDetection.create, the fault_created event, and the read of
\* generateTicketNumber through the global client
WfFault(p) ==
  /\ running[p].pc = "checked"
  /\ LET r == running[p]
         fault == [id |-> seq.fault, panelId |-> r.input.panelId,
                   faultType |-> r.input.faultType, detectedAt |-> r.input.detectedAt]
     IN running' = [running EXCEPT ![p] =
          [r EXCEPT !.pc = "numbered", !.fault = fault,
                    !.ticketNumber = generateTicketNumber(tickets),
                    !.evs = Append(@, Event("FaultCreated", "fault_created", r.input.incidentId,
                                            fault.id, NoId, NoTech))]]
  /\ seq' = [seq EXCEPT !.fault = @ + 1]
  /\ UNCHANGED <<now, panelStatus, technicians, faults, tickets, alerts, events, scans, last>>

\* ticket.create: the unique index on ticketNumber makes the insert wait for
\* an uncommitted ticket with the number and fail on a committed one
WfTicket(p) ==
  /\ running[p].pc = "numbered"
  /\ seq.ticket <= MaxTickets
  /\ LET r == running[p]
     IN /\ ~\E q \in Procs \ {p} :
               HoldsTicket(q) /\ running[q].ticket.ticketNumber = r.ticketNumber
        /\ IF TicketNumberTaken(tickets, r.ticketNumber)
           THEN /\ running' = [running EXCEPT ![p] = Idle]
                /\ last' = Request("panelError",
                                   <<Call(DB, r.input, Outcome(DB, TRUE, NoResult))>>, "500")
                /\ seq' = seq
           ELSE LET ticket == [id |-> seq.ticket, ticketNumber |-> r.ticketNumber,
                               faultId |-> r.fault.id, panelId |-> r.input.panelId,
                               status |-> "open",
                               priority |-> priorityFromSeverity(r.input.severity),
                               assignedTechnicianId |-> NoTech]
                IN /\ running' = [running EXCEPT ![p] =
                        [r EXCEPT !.pc = "ticketed", !.ticket = ticket,
                                  !.evs = Append(@,
                                     [Event("TicketCreated", "ticket_created", r.input.incidentId,
                                            r.fault.id, ticket.id, NoTech)
                                        EXCEPT !.payload = r.ticketNumber])]]
                   /\ seq' = [seq EXCEPT !.ticket = @ + 1]
                   /\ last' = last
  /\ UNCHANGED <<now, panelStatus, technicians, faults, tickets, alerts, events, scans>>

\* selectTechnician reads the technician rows
WfSelect(p) ==
  /\ running[p].pc = "ticketed"
  /\ \E techId \in selectTechnician(technicians, running[p].input.faultType) :
       running' = [running EXCEPT ![p] =
          [@ EXCEPT !.pc = "selected", !.technician = techId,
                    !.read = IF techId = NoTech THEN @ ELSE technicians[techId]]]
  /\ UNCHANGED <<now, panelStatus, technicians, faults, tickets, alerts, events, scans, seq, last>>

\* ticket.update, technician.update, the last event, return, commit: the
\* increment applies to the committed row, the status comes from the row read
WfCommit(p) ==
  /\ running[p].pc = "selected"
  /\ LET r == running[p]
         techId == r.technician
         ticket == [r.ticket EXCEPT !.assignedTechnicianId = techId]
         result == [deduplicated |-> FALSE, faultId |-> r.fault.id, ticketId |-> ticket.id,
                    ticketNumber |-> ticket.ticketNumber, assignedTechnicianId |-> techId]
     IN /\ faults' = InsertById(faults, r.fault)
        /\ tickets' = InsertById(tickets, ticket)
        /\ technicians' = IF techId = NoTech THEN technicians
                          ELSE bumpTechnician(Begin(DB), techId, r.read).cur.technicians
        /\ events' = events \o r.evs \o
                       <<IF techId = NoTech
                         THEN Event("TechnicianUnavailable", "manual_assignment_required",
                                    r.input.incidentId, r.fault.id, ticket.id, NoTech)
                         ELSE Event("TechnicianAssigned", "technician_assigned",
                                    r.input.incidentId, r.fault.id, ticket.id, techId)>>
        /\ last' = Request("panelError", <<Call(DB, r.input, Outcome(DB, FALSE, result))>>, "201")
  /\ running' = [running EXCEPT ![p] = Idle]
  /\ UNCHANGED <<now, panelStatus, alerts, scans, seq>>

-----------------------------------------------------------------------------
(* SpecRace: two panel-error reports for one row in flight at once *)

Begun ==
  \E p \in Procs, panelId \in {"p1", "p2"} : WfCheck(p, panelId, "voltage_fault", 0)

NextRace ==
  \/ Begun
  \/ \E p \in Procs : WfDuplicate(p)
  \/ \E p \in Procs : WfFault(p)
  \/ \E p \in Procs : WfTicket(p)
  \/ \E p \in Procs : WfSelect(p)
  \/ \E p \in Procs : WfCommit(p)

SpecRace == Init /\ [][NextRace]_vars

-----------------------------------------------------------------------------
(* C19 *)

\* this step commits the created ticket of invocation p although a fault of
\* its row and type with a ticket has been committed since its duplicate check
RaceCommit(p) ==
  /\ running[p].pc = "selected" /\ running'[p] = Idle
  /\ TicketedFaultInWindow(running[p].input)

\* the stored tickets of faults of the row and type of the input, inside
\* one dedup window around its detectedAt
TicketsOfRow(tks, fts, input) ==
  {t \in Range(tks) :
     \E f \in Range(fts) :
        /\ f.id = t.faultId
        /\ RowOf(f.panelId) = RowOf(input.panelId)
        /\ f.faultType = input.faultType
        /\ WithinWindow(f.detectedAt, input.detectedAt)}

\* C19: two invocations for one row and faultType that both pass the
\* duplicate check before either commits can both commit: the second commit
\* leaves two tickets for the row inside one dedup window, and it increments
\* the activeTickets of its technician once more, on top of the increment of
\* the first commit.
C19_RaceCommitsTwice ==
  [][ \A p \in Procs :
        RaceCommit(p) =>
          LET r == running[p]
          IN /\ Cardinality(TicketsOfRow(tickets', faults', r.input))
                  = Cardinality(TicketsOfRow(tickets, faults, r.input)) + 1
             /\ Cardinality(TicketsOfRow(tickets', faults', r.input)) >= 2
             /\ r.technician # NoTech =>
                  technicians'[r.technician].activeTickets
                    = technicians[r.technician].activeTickets + 1 ]_vars

\* both invocations have committed: two tickets for row 1 of zone A with one
\* detectedAt, both assigned to one technician whose activeTickets is 2
C19_Witness ==
  /\ \A p \in Procs : running[p] = Idle
  /\ Len(tickets) = 2 /\ Len(faults) = 2
  /\ \A f \in Range(faults) :
       RowOf(f.panelId) = RowOf("p1") /\ f.faultType = "voltage_fault" /\ f.detectedAt = 0
  /\ \E T \in TechIds :
       /\ \A t \in Range(tickets) : t.assignedTechnicianId = T
       /\ technicians[T].activeTickets = 2

-----------------------------------------------------------------------------
(* PATCH /api/tickets/:id between its awaits: the read of the ticket, the  *)
(* technician update, the ticket update and the ticket delete are separate *)
(* statements through the global client                                     *)

\* ticket.findUnique and isResolving
PtRead(p, id, status) ==
  /\ running[p] = Idle
  /\ IF ~HasTicket(tickets, id)
     THEN /\ last' = [Request("patchTicket", <<>>, "404") EXCEPT !.ticketId = id,
                                                                 !.status = status]
          /\ running' = running
     ELSE LET currentTicket == tickets[TicketIndex(tickets, id)]
          IN /\ running' = [running EXCEPT ![p] =
                  [pc |-> "read", id |-> id, status |-> status,
                   currentTicket |-> currentTicket,
                   resolving |-> isResolving(status, currentTicket)]]
             /\ last' = last
  /\ UNCHANGED <<now, panelStatus, technicians, faults, tickets, alerts, events, scans, seq>>

\* technician.update of a resolving patch of an assigned ticket
PtTechnician(p) ==
  /\ running[p].pc = "read"
  /\ LET r == running[p]
     IN technicians' =
          IF r.resolving /\ r.currentTicket.assignedTechnicianId # NoTech
          THEN resolveTechnician(technicians, r.currentTicket.assignedTechnicianId)
          ELSE technicians
  /\ running' = [running EXCEPT ![p].pc = "reversed"]
  /\ UNCHANGED <<now, panelStatus, faults, tickets, alerts, events, scans, seq, last>>

\* ticket.update: it throws when the ticket is gone (answer 500); a patch
\* that is not resolving answers with the updated ticket
PtUpdate(p) ==
  /\ running[p].pc = "reversed"
  /\ LET r == running[p]
     IN IF ~HasTicket(tickets, r.id)
        THEN /\ tickets' = tickets
             /\ running' = [running EXCEPT ![p] = Idle]
             /\ last' = [Request("patchTicket", <<>>, "500")
                           EXCEPT !.ticketId = r.id, !.status = r.status,
                                  !.resolving = r.resolving,
                                  !.techId = r.currentTicket.assignedTechnicianId]
        ELSE /\ tickets' = [tickets EXCEPT ![TicketIndex(tickets, r.id)].status = r.status]
             /\ IF r.resolving
                THEN /\ running' = [running EXCEPT ![p].pc = "updated"]
                     /\ last' = last
                ELSE /\ running' = [running EXCEPT ![p] = Idle]
                     /\ last' = [Request("patchTicket", <<>>, "200")
                                   EXCEPT !.ticketId = r.id, !.status = r.status,
                                          !.techId = r.currentTicket.assignedTechnicianId]
  /\ UNCHANGED <<now, panelStatus, technicians, faults, alerts, events, scans, seq>>

\* ticket.delete of a resolving patch: it throws when the ticket is gone
PtDelete(p) ==
  /\ running[p].pc = "updated"
  /\ LET r == running[p]
     IN /\ tickets' = RemoveTicket(tickets, r.id)
        /\ last' = [Request("patchTicket", <<>>,
                            IF HasTicket(tickets, r.id) THEN "deleted" ELSE "500")
                      EXCEPT !.ticketId = r.id, !.status = r.status, !.resolving = TRUE,
                             !.techId = r.currentTicket.assignedTechnicianId]
  /\ running' = [running EXCEPT ![p] = Idle]
  /\ UNCHANGED <<now, panelStatus, technicians, faults, alerts, events, scans, seq>>

-----------------------------------------------------------------------------
(* SpecPatchRace: tickets assigned by the workflow, resolved by PATCH       *)
(* requests in flight at once                                               *)

ReportHere ==
  \E panelId \in {"p1", "p4"} : PanelError(panelId, "voltage_fault", "high", now, NoId)

Received ==
  \E p \in Procs, id \in 1..MaxTickets, status \in {"resolved", "closed"} :
    PtRead(p, id, status)

NextPatchRace ==
  \/ ReportHere
  \/ Received
  \/ \E p \in Procs : PtTechnician(p)
  \/ \E p \in Procs : PtUpdate(p)
  \/ \E p \in Procs : PtDelete(p)

SpecPatchRace == Init /\ [][NextPatchRace]_vars

-----------------------------------------------------------------------------
(* C20 *)

RECURSIVE SumResolved(_, _)
SumResolved(techs, ids) ==
  IF ids = {} THEN 0
  ELSE LET t == CHOOSE x \in ids : TRUE
       IN techs[t].resolvedTickets + SumResolved(techs, ids \ {t})

\* C20: however the steps of overlapping resolving PATCH requests of one
\* assigned ticket interleave, the reversal is applied once: when no request
\* is in flight every technician's activeTickets is the number of stored
\* tickets assigned to the technician, and the resolvedTickets add up to the
\* number of tickets that were created and are no longer stored.
C20_ReversalOneShot ==
  (\A p \in Procs : running[p] = Idle)
    => /\ \A T \in TechIds :
            technicians[T].activeTickets = Cardinality(AssignedTo(tickets, T))
       /\ SumResolved(technicians, TechIds) = (seq.ticket - 1) - Len(tickets)

-----------------------------------------------------------------------------
(* SpecFrame: reports for a row whose alert already produced a ticket *)

UpsertRow ==
  \E status \in {"warning", "fault"} : AlertUpsert("A", 2, status, NoId)

ReportAlerted ==
  \E faultType \in {"low_voltage_warning", "voltage_fault"} :
    PanelError("p4", faultType, "high", now, NoId)

NextFrame ==
  \/ UpsertRow
  \/ ReportAlerted
  \/ Reassign
  \/ TechnicianStatus

SpecFrame == Init /\ [][NextFrame]_vars

-----------------------------------------------------------------------------
(* C21 *)

\* C21: an invocation whose duplicate check finds a fault with a ticket
\* creates no fault and no ticket, changes no ticket, technician or alert,
\* and returns deduplicated with the id of the stored fault and the id, the
\* number and the assignee of its stored ticket.
C21_DedupNoWrites ==
  [][ (Reported /\ ~last'.calls[1].err /\ DuplicateWithTicket(last'.calls[1].input))
      => LET r == last'.calls[1].result
             t == getTicket(tickets, r.ticketId)
         IN /\ faults' = faults /\ tickets' = tickets
            /\ technicians' = technicians /\ alerts' = alerts
            /\ seq'.fault = seq.fault /\ seq'.ticket = seq.ticket
            /\ r.deduplicated
            /\ \E f \in Range(faults) : f.id = r.faultId
            /\ t # NoTicket /\ t.faultId = r.faultId
            /\ r.ticketNumber = t.ticketNumber
            /\ r.assignedTechnicianId = t.assignedTechnicianId ]_vars

\* a report was deduplicated against the ticket of the row's alert, which
\* had been reassigned, while the alert is still open
C21_Witness ==
  /\ last.op = "panelError" /\ ~last.calls[1].err
  /\ last.calls[1].result.deduplicated
  /\ last.calls[1].result.assignedTechnicianId = "t2"
  /\ \E a \in Range(alerts) : ~a.dismissed /\ a.ticketId = last.calls[1].result.ticketId
  /\ technicians["t1"].activeTickets = 1

-----------------------------------------------------------------------------
(* SpecAssignRace: two panel-error reports for different rows in flight at *)
(* once while a ticket is posted by hand, over technicians stored by POST   *)
(* /api/technicians with the activeTickets of the body                      *)

Workload == [t1 |-> 2, t2 |-> 0]

InitWorkload ==
  /\ now = 0
  /\ panelStatus = [p \in PanelIds |-> "healthy"]
  /\ technicians = [t \in TechIds |-> [InitTechnicians[t] EXCEPT !.activeTickets = Workload[t]]]
  /\ faults = <<>>
  /\ tickets = <<>>
  /\ alerts = <<>>
  /\ events = <<>>
  /\ scans = <<>>
  /\ seq = InitSeq
  /\ last = Request("init", <<>>, "")
  /\ running = [p \in Procs |-> Idle]

BegunRows ==
  \E p \in Procs, panelId \in {"p1", "p4"} : WfCheck(p, panelId, "voltage_fault", 0)

\* POST /api/tickets of an unassigned ticket; the insert waits while an
\* invocation holds an uncommitted ticket with the number
Posted ==
  \E ticketNumber \in ManualTicketNumbers :
    /\ ~\E q \in Procs : HoldsTicket(q) /\ running[q].ticket.ticketNumber = ticketNumber
    /\ PostTicket(ticketNumber, "open", NoTech, NoId)

NextAssignRace ==
  \/ BegunRows
  \/ Posted
  \/ \E p \in Procs : WfDuplicate(p)
  \/ \E p \in Procs : WfFault(p)
  \/ \E p \in Procs : WfTicket(p)
  \/ \E p \in Procs : WfSelect(p)
  \/ \E p \in Procs : WfCommit(p)

SpecAssignRace == InitWorkload /\ [][NextAssignRace]_vars

-----------------------------------------------------------------------------
(* C22 *)

\* this step commits invocation p with an assignment
AssignmentCommit(p) ==
  /\ running[p].pc = "selected" /\ running'[p] = Idle
  /\ running[p].technician # NoTech

\* C22: every committed assignment raises the activeTickets of the chosen
\* technician by exactly 1; after it the technician is busy if activeTickets
\* has reached the busy threshold, and keeps the status it had otherwise,
\* also when several invocations assign the technician at once.
C22_BusyThreshold ==
  [][ \A p \in Procs :
        AssignmentCommit(p) =>
          LET T == running[p].technician
          IN /\ technicians'[T].activeTickets = technicians[T].activeTickets + 1
             /\ technicians'[T].activeTickets >= BUSY_THRESHOLD
                  => technicians'[T].status = "busy"
             /\ technicians'[T].activeTickets < BUSY_THRESHOLD
                  => technicians'[T].status = technicians[T].status ]_vars

-----------------------------------------------------------------------------
(* The thermal-image socket handler of index.ts: its row check, the fault  *)
(* and the ticket are separate statements through the global client         *)

ThermalImage(panelId, faultType, severity) ==
  /\ seq.fault <= MaxCalls + 1
  /\ seq.ticket <= MaxTickets
  /\ LET dedupeFrom == now - DEDUPE_WINDOW_MINUTES
         existingFault == {f \in Range(faults) :
                             /\ f.panelId \in panelIdsInRow(panelId)
                             /\ f.detectedAt >= dedupeFrom}
         faultDetection == [id |-> seq.fault, panelId |-> panelId,
                            faultType |-> faultType, detectedAt |-> now]
         ticketNumber == generateTicketNumber(tickets)
         ticket == [id |-> seq.ticket, ticketNumber |-> ticketNumber,
                    faultId |-> faultDetection.id, panelId |-> panelId,
                    status |-> "open",
                    priority |-> IF severity = "high" THEN "high" ELSE "medium",
                    assignedTechnicianId |-> NoTech]
     IN IF existingFault # {}
        THEN /\ last' = Request("thermalImage", <<>>, "duplicate")
             /\ UNCHANGED <<faults, tickets, seq>>
        ELSE \/ /\ faults' = Append(faults, faultDetection)
                /\ ~TicketNumberTaken(tickets, ticketNumber)
                /\ tickets' = Append(tickets, ticket)
                /\ seq' = [seq EXCEPT !.fault = @ + 1, !.ticket = @ + 1]
                /\ last' = Request("thermalImage", <<>>, "stored")
             \* ticket.create throws: the number is taken, or the storage fails
             \/ /\ faults' = Append(faults, faultDetection)
                /\ tickets' = tickets
                /\ seq' = [seq EXCEPT !.fault = @ + 1]
                /\ last' = Request("thermalImage", <<>>, "error")
             \* faultDetection.create throws
             \/ /\ last' = Request("thermalImage", <<>>, "error")
                /\ UNCHANGED <<faults, tickets, seq>>
  /\ UNCHANGED <<now, panelStatus, technicians, alerts, events, scans, running>>

-----------------------------------------------------------------------------
(* SpecThermal: the ingest paths that create a ticket for a fault *)

Thermal ==
  \E panelId \in {"p1", "p4"} : ThermalImage(panelId, "thermal_fault", "high")

NextThermal ==
  \/ Tick
  \/ Thermal
  \/ ReportHere
  \/ CreateTicket

SpecThermal == Init /\ [][NextThermal]_vars

-----------------------------------------------------------------------------
(* C23 *)

\* C23: a step of an ingest path that stores a fault stores, in the same
\* step, exactly one ticket of that fault, in status open: no failure leaves
\* the fault without its ticket.
C23_FaultWithTicket ==
  [][ Len(faults') > Len(faults)
      => LET fault == faults'[Len(faults')]
             own == {i \in 1..Len(tickets') : tickets'[i].faultId = fault.id}
         IN /\ Len(faults') = Len(faults) + 1
            /\ Len(tickets') = Len(tickets) + 1
            /\ Cardinality(own) = 1
            /\ \A i \in own : tickets'[i].status = "open" ]_vars

-----------------------------------------------------------------------------
(* C24 *)

\* C24: a PATCH of a ticket in a non-terminal status whose body does not ask
\* for resolved or closed stores the status and the assignee of the body,
\* keeps what the body leaves out, keeps the ticket and every other ticket,
\* and changes no technician's activeTickets or resolvedTickets.
C24_PatchWithoutReversal ==
  [][ (/\ PatchedStored
       /\ last'.status \notin {"resolved", "closed"}
       /\ getTicket(tickets, last'.ticketId).status \notin {"resolved", "closed"})
      => LET id == last'.ticketId
             before == getTicket(tickets, id)
             after == getTicket(tickets', id)
         IN /\ last'.resp = "200"
            /\ after # NoTicket
            /\ after.status = IF last'.status # "" THEN last'.status ELSE before.status
            /\ after.assignedTechnicianId =
                 IF last'.bodyTechId # "undefined" THEN last'.bodyTechId
                 ELSE before.assignedTechnicianId
            /\ after.ticketNumber = before.ticketNumber /\ after.faultId = before.faultId
            /\ Len(tickets') = Len(tickets)
            /\ \A i \in 1..Len(tickets) : tickets[i].id # id => tickets'[i] = tickets[i]
            /\ \A T \in TechIds :
                 /\ technicians'[T].activeTickets = technicians[T].activeTickets
                 /\ technicians'[T].resolvedTickets = technicians[T].resolvedTickets ]_vars

\* a ticket that was reassigned has been set to in_progress and is still
\* stored, and no technician counter has moved
C24_Witness ==
  /\ last.op = "patchTicket" /\ last.status = "in_progress" /\ last.resp = "200"
  /\ LET ticket == getTicket(tickets, last.ticketId)
     IN /\ ticket # NoTicket
        /\ ticket.status = "in_progress"
        /\ ticket.assignedTechnicianId = "t2"
  /\ technicians = InitTechnicians

-----------------------------------------------------------------------------
(* C25 *)

\* C25: the duplicate check matches exactly the stored faults on a panel of
\* the physical row (zone and row number) of the reporting panel, with the
\* faultType of the report and a detectedAt not more than 15 minutes before
\* the detectedAt of the report, the bound included; the invocation is
\* deduplicated against the match with the latest detectedAt and that
\* fault's most recently created ticket, and it is not deduplicated only
\* when nothing matches or the latest match has no ticket.
C25_WindowBoundary ==
  [][ (Reported /\ ~last'.calls[1].err)
      => LET input == last'.calls[1].input
             r == last'.calls[1].result
             matches == {f \in Range(faults) :
                           /\ RowOf(f.panelId) = RowOf(input.panelId)
                           /\ f.faultType = input.faultType
                           /\ f.detectedAt >= input.detectedAt - 15}
             latest == {f \in matches : \A g \in matches : g.detectedAt <= f.detectedAt}
         IN IF r.deduplicated
            THEN /\ \E f \in latest : f.id = r.faultId
                 /\ r.ticketId = LatestTicketOf(DB, r.faultId).id
            ELSE \/ matches = {}
                 \/ \E f \in latest : LatestTicketOf(DB, f.id) = NoTicket ]_vars

-----------------------------------------------------------------------------
(* SpecSync: the sync pass over panels that change their status, beside    *)
(* alerts posted for a row without panels                                   *)

PanelsChange ==
  \E panelId \in {"p1", "p2", "p4"}, status \in PanelStatuses :
    PanelStatusChange(panelId, status)

\* an alert posted for a row that has no panel
UpsertStray ==
  \E status \in {"warning", "healthy"} : AlertUpsert("C", 1, status, NoId)

NextSync ==
  \/ PanelsChange
  \/ UpsertStray
  \/ AlertSync

SpecSync == Init /\ [][NextSync]_vars

-----------------------------------------------------------------------------
(* C26 *)

\* some panel of the row is in warning or fault
RowInWarningOrFault(zone, row) ==
  \E p \in PanelIds :
     /\ Panels[p].zone = zone /\ Panels[p].row = row
     /\ panelStatus[p] \in {"warning", "fault"}

\* C26: after a sync pass every row has a non-dismissed alert exactly if one
\* of its panels is in warning or fault; the pass dismisses the open alerts
\* of the other rows, leaves the open alerts of rows in warning or fault
\* open, and invokes the workflow once for each alert it creates.
C26_SyncReconciles ==
  [][ last'.op = "alertSync"
      => /\ \A a \in Range(alerts') :
              ~a.dismissed => RowInWarningOrFault(a.zone, a.row)
         /\ \A p \in PanelIds :
              panelStatus[p] \in {"warning", "fault"}
                => \E a \in Range(alerts') :
                      a.zone = Panels[p].zone /\ a.row = Panels[p].row /\ ~a.dismissed
         /\ Len(alerts') >= Len(alerts)
         /\ \A i \in 1..Len(alerts) :
              /\ alerts'[i].id = alerts[i].id
              /\ alerts'[i].dismissed =
                   (alerts[i].dismissed \/ ~RowInWarningOrFault(alerts[i].zone, alerts[i].row))
         /\ Len(last'.calls) = Len(alerts') - Len(alerts)
         /\ \A i \in (Len(alerts) + 1)..Len(alerts') :
              /\ alerts'[i].status \in {"warning", "fault"}
              /\ Cardinality({k \in 1..Len(last'.calls) :
                                /\ last'.calls[k].input.zone = alerts'[i].zone
                                /\ last'.calls[k].input.row = alerts'[i].row
                                /\ last'.calls[k].input.status = alerts'[i].status}) = 1 ]_vars

\* a sync pass has created the alert of a row in fault, with its ticket,
\* while the alert of a row without panels in warning or fault is dismissed
C26_Witness ==
  /\ last.op = "alertSync" /\ Len(last.calls) = 1 /\ ~last.calls[1].err
  /\ \E a, b \in Range(alerts) :
       /\ ~a.dismissed /\ a.status = "fault" /\ a.zone = "A" /\ a.row = 1
       /\ a.ticketId = last.calls[1].result.ticketId
       /\ b.dismissed /\ ~RowInWarningOrFault(b.zone, b.row)

-----------------------------------------------------------------------------
(* SpecDismiss: alerts dismissed by row with a status in the body *)

DismissStatus ==
  \E r \in AlertRows, status \in {"warning", "fault"} : AlertDismiss(r.zone, r.row, status)

NextDismiss ==
  \/ Upsert
  \/ DismissStatus

SpecDismiss == Init /\ [][NextDismiss]_vars

-----------------------------------------------------------------------------
(* C27 *)

\* C27: a dismiss request with a status S dismisses, for the zone and row of
\* its body, the non-dismissed alerts whose status is S and no other alert,
\* and it changes the status of no alert.
C27_DismissFiltersByStatus ==
  [][ (last'.op = "alertDismiss" /\ last'.status # "")
      => /\ Len(alerts') = Len(alerts)
         /\ \A i \in 1..Len(alerts) : alerts'[i].status = alerts[i].status
         /\ \E r \in AlertRows :
              \A i \in 1..Len(alerts) :
                 alerts'[i].dismissed =
                   \/ alerts[i].dismissed
                   \/ /\ alerts[i].zone = r.zone /\ alerts[i].row = r.row
                      /\ alerts[i].status = last'.status ]_vars

-----------------------------------------------------------------------------
(* SpecBusy: a technician who reaches the busy threshold by assignments,   *)
(* the resolution of the tickets and the explicit status update             *)

Released == \E id \in TechIds : PatchTechnicianStatus(id, "available")

NextBusy ==
  \/ ReportHere
  \/ Resolve
  \/ Released

SpecBusy == InitWorkload /\ [][NextBusy]_vars

-----------------------------------------------------------------------------
(* C28 *)

\* C28: a resolving PATCH changes the activeTickets and resolvedTickets of
\* the technician of the ticket and nothing else of any technician, the
\* status least of all; a busy technician stops being busy only by an
\* explicit technician status update.
C28_ResolveKeepsStatus ==
  [][ /\ last'.op = "patchTicket"
        => \A T \in TechIds :
              /\ technicians'[T].status = technicians[T].status
              /\ technicians'[T].skills = technicians[T].skills
              /\ technicians'[T].avgResolutionTime = technicians[T].avgResolutionTime
              /\ technicians'[T] # technicians[T]
                   => /\ last'.resolving /\ last'.techId = T
                      /\ technicians'[T].activeTickets = technicians[T].activeTickets - 1
                      /\ technicians'[T].resolvedTickets = technicians[T].resolvedTickets + 1
      /\ \A T \in TechIds :
           (technicians[T].status = "busy" /\ technicians'[T].status # "busy")
             => last'.op = "patchTechnicianStatus" /\ last'.techId = T ]_vars

\* t1 became busy with its second assignment, both tickets have been
\* resolved, and t1 is still busy with its workload back where it started
C28_Witness ==
  /\ last.op = "patchTicket" /\ last.resolving
  /\ tickets = <<>> /\ seq.ticket = 3
  /\ technicians["t1"].status = "busy"
  /\ technicians["t1"].activeTickets = Workload["t1"]
  /\ technicians["t1"].resolvedTickets = 2

-----------------------------------------------------------------------------
(* C29 *)

\* C29: no increment is lost, whatever rows the invocations read: every
\* technician's activeTickets is the workload the technician was stored with
\* plus the number of committed tickets assigned to the technician, so two
\* invocations that chose one technician from the same read leave the
\* technician 2 higher, with both tickets assigned to the technician.
C29_NoLostIncrement ==
  \A T \in TechIds :
     technicians[T].activeTickets = Workload[T] + Cardinality(AssignedTo(tickets, T))

\* both invocations, for rows 1 and 2 of zone A, have committed a ticket
\* assigned to t1; t1 is 2 higher and still available, which only a choice
\* of both from the row with activeTickets 2 leaves
C29_Witness ==
  /\ \A p \in Procs : running[p] = Idle
  /\ \E i, j \in 1..Len(tickets) :
       /\ tickets[i].panelId = "p1" /\ tickets[j].panelId = "p4"
       /\ tickets[i].assignedTechnicianId = "t1" /\ tickets[j].assignedTechnicianId = "t1"
  /\ technicians["t1"].activeTickets = Workload["t1"] + 2
  /\ technicians["t1"].status = "available"

-----------------------------------------------------------------------------
(* The socket scan ingest: socket.on('pi_analysis_result') and its         *)
(* deferred automation                                                      *)

\* pi_analysis_result for a capture not seen before, without timestamp
PiAnalysisResult(hasFaulty, dustyPanelCount, severity) ==
  /\ seq.scan <= MaxScans
  /\ LET normalizedSeverity == normalizeSeverity(severity)
         shouldAutoCreateTicket ==
           \/ normalizedSeverity \in {"critical", "high", "medium"}
           \/ dustyPanelCount >= AUTO_TICKET_THRESHOLD
           \/ hasFaulty
         savedScan == [id |-> seq.scan, timestamp |-> now, hasFaulty |-> hasFaulty,
                       dustyPanelCount |-> dustyPanelCount, severity |-> normalizedSeverity,
                       status |-> IF shouldAutoCreateTicket THEN "processing" ELSE "pending",
                       timer |-> shouldAutoCreateTicket, source |-> "socket"]
     IN /\ scans' = Append(scans, savedScan)
        /\ seq' = [seq EXCEPT !.scan = @ + 1]
        /\ last' = Request("piAnalysisResult", <<>>, "success")
  /\ UNCHANGED <<now, panelStatus, technicians, faults, tickets, alerts, events, running>>

\* the callback of setTimeout(..., 3000) of pi_analysis_result
PiScanAutomation(scanId) ==
  /\ \E i \in 1..Len(scans) :
        scans[i].id = scanId /\ scans[i].timer /\ scans[i].source = "socket"
  /\ LET savedScan == scans[ScanIndex(scans, scanId)]
         logged == [scans EXCEPT ![ScanIndex(scans, scanId)] = [@ EXCEPT !.timer = FALSE]]
     IN IF resolvePanel = {}
        THEN /\ scans' = logged
             /\ last' = Request("piScanAutomation", <<>>, "no_panel")
             /\ UNCHANGED <<technicians, faults, tickets, alerts, events, seq>>
        ELSE
        \E panel \in resolvePanel :
          LET derivedFaultType ==
                IF savedScan.hasFaulty THEN "thermal_fault"
                ELSE IF savedScan.dustyPanelCount >= AUTO_TICKET_THRESHOLD
                     THEN "dust_accumulation"
                ELSE "scan_anomaly"
              dedupeFrom == now - DEDUPE_WINDOW_MINUTES
              existingFault == {f \in Range(faults) :
                                  /\ f.panelId \in panelIdsInRow(panel)
                                  /\ f.detectedAt >= dedupeFrom}
              db0 == [DB EXCEPT !.seq.incident = @ + 1]
              input == WorkflowInput(generateIncidentId(DB), panel, derivedFaultType,
                                     savedScan.severity, savedScan.timestamp, "", 0, "")
          IN IF existingFault # {}
             THEN /\ scans' = RemoveScan(scans, scanId)
                  /\ last' = Request("piScanAutomation", <<>>, "skipped")
                  /\ UNCHANGED <<technicians, faults, tickets, alerts, events, seq>>
             ELSE \E outcome \in createFaultTicketAndAssignment(db0, input) :
                    /\ Store(outcome.db)
                    /\ scans' = IF outcome.err THEN logged ELSE RemoveScan(scans, scanId)
                    /\ last' = Request("piScanAutomation", <<Call(db0, input, outcome)>>,
                                       IF outcome.err THEN "error" ELSE "processed")
  /\ UNCHANGED <<now, panelStatus, running>>

-----------------------------------------------------------------------------
(* SpecPi: scans ingested over HTTP and over the socket, their deferred    *)
(* automations, reports that leave faults on the rows, and panels going    *)
(* offline                                                                  *)

PiScan == \E hasFaulty \in BOOLEAN : PiAnalysisResult(hasFaulty, 1, "low")

PiDeferred == \E scanId \in 1..MaxScans : PiScanAutomation(scanId)

PanelOff == \E panelId \in PanelIds : PanelStatusChange(panelId, "offline")

NextPi ==
  \/ Scan
  \/ DeferredAutomation
  \/ PiScan
  \/ PiDeferred
  \/ ReportHere
  \/ PanelOff

SpecPi == Init /\ [][NextPi]_vars

-----------------------------------------------------------------------------
(* C30 *)

\* C30: a scan whose deferred automation has run is deleted or out of
\* processing: every scan still stored with status processing has its
\* deferred callback pending, whichever ingest path scheduled it and
\* whichever branch the callback took (duplicate found, ticket created, no
\* panel found, automation error).
C30_DeferredFinishesScan ==
  \A i \in 1..Len(scans) : scans[i].status = "processing" => scans[i].timer

====
